---- MODULE Spec2Model ----
(***************************************************************************)
(* A model of the question-answering pipeline of app/rag_chat.py and       *)
(* app/utils.py: standard resolution, query expansion, multi-store         *)
(* retrieval with the process-wide store cache, ranking, the batched Map   *)
(* phase, the Reduce phase and the assembly of the result.                 *)
(*                                                                         *)
(* Python strings are sequences of one-character strings.  Texts produced  *)
(* by the program or by the completion model are sequences of pieces.      *)
(* None is the one value that is no sequence of characters.                *)
(***************************************************************************)
EXTENDS Integers, Sequences, FiniteSets, TLC

VARIABLES
    pc,                \* position of the request inside get_answer
    query,             \* get_answer's argument query
    selected_standard, \* get_answer's argument selected_standard
    original_query,    \* get_answer's argument original_query
    standard_key,      \* local of get_answer
    chat_state,        \* module-level dictionary of rag_chat.py
    variants,          \* local of retrieve_context
    spec_i,            \* index of the StoreSpec the retrieval loop stands at
    var_i,             \* index of the variant the inner loop stands at
    db,                \* handle returned by _load_chroma_db for the StoreSpec
    aggregated,        \* local of retrieve_context
    results,           \* local of get_answer (the ranked context)
    sources,           \* local of get_answer
    batch_size,        \* local of get_answer
    batch_i,           \* number of batches the Map loop has consumed
    summaries,         \* local of get_answer
    result,            \* what get_answer returned, or the exception it raised
    search_keys,       \* local of retrieve_context
    sk_i,              \* index of the search key the outer loop stands at
    _CHROMA_CACHE,     \* module-level dictionary of utils.py
    opened,            \* history: connections opened per cache key (the actions of
                       \* get_answer keep no count)
    loadLog,           \* history: the loads of the request (cache key, handle or none)
    searchLog,         \* history: the similarity searches of the request and their outcomes
    completionLog,     \* history: completion-model calls issued by the request
    arg,               \* input of the function a function-level specification applies
    ret,               \* its output
    words,             \* local of expand_query_variants
    kws,               \* local of expand_query_variants
    threads,           \* the threads inside _load_chroma_db: position and locals
    session_state,     \* st.session_state of the front end (run_app.py)
    attempts,          \* history: the outcomes of the calls with_retries made of func
    global_embeddings  \* local of create_chroma_index (update_pipeline_*.py)

pipeVars == <<pc, query, selected_standard, original_query, standard_key,
              chat_state, variants, spec_i, var_i, db, aggregated, results,
              sources, batch_size, batch_i, summaries, result, search_keys, sk_i,
              _CHROMA_CACHE,
              opened, loadLog, searchLog, completionLog>>

\* the state of the front end and of the ingestion pipelines
sideVars == <<session_state, attempts, global_embeddings>>

funVars == <<arg, ret, words, kws, threads, sideVars>>

vars == <<pipeVars, funVars>>

----------------------------------------------------------------------------
(* Strings *)

None == <<"None">>

UpperCase == <<"A","B","C","D","E","F","G","H","I","J","K","L","M","N","O","P","Q","R","S","T","U","V","W","X","Y","Z">>

LowerCase == <<"a","b","c","d","e","f","g","h","i","j","k","l","m","n","o","p","q","r","s","t","u","v","w","x","y","z">>

Digits == <<"0","1","2","3","4","5","6","7","8","9">>

Range(f) == {f[i] : i \in DOMAIN f}

Min(a, b) == IF a <= b THEN a ELSE b

\* str.lower() on one character
LowerChar(c) ==
    IF \E i \in DOMAIN UpperCase : UpperCase[i] = c
    THEN LowerCase[CHOOSE i \in DOMAIN UpperCase : UpperCase[i] = c]
    ELSE c

\* str.lower()
Lower(s) == [i \in DOMAIN s |-> LowerChar(s[i])]

\* str.replace(old, new) for a one-character old
Replace(s, old, new) == [i \in DOMAIN s |-> IF s[i] = old THEN new ELSE s[i]]

\* lst[a:b] for 0 <= a, 0 <= b
Slice(lst, a, b) == SubSeq(lst, a + 1, Min(b, Len(lst)))

\* Python truthiness of a string or None
Truthy(v) == v # None /\ v # <<>>

----------------------------------------------------------------------------
(* app/rag_chat.py: _normalize_standard_key *)

\* as mapping, with the alias gold_standard kept as its own key
mapping_keeping_gold_standard ==
    { << <<"v","c","s">>, <<"v","c","s">> >>,
      << <<"v","e","r","r","a">>, <<"v","c","s">> >>,
      << <<"i","c","r">>, <<"i","c","r">> >>,
      << <<"p","l","a","n","_","v","i","v","o">>, <<"p","l","a","n","_","v","i","v","o">> >>,
      << <<"p","l","a","n","v","i","v","o">>, <<"p","l","a","n","_","v","i","v","o">> >>,
      << <<"o","t","h","e","r">>, <<"o","t","h","e","r">> >>,
      << <<"g","s">>, <<"g","s">> >>,
      << <<"g","o","l","d","_","s","t","a","n","d","a","r","d">>,
         <<"g","o","l","d","_","s","t","a","n","d","a","r","d">> >> }

mapping ==
    { << <<"v","c","s">>, <<"v","c","s">> >>,
      << <<"v","e","r","r","a">>, <<"v","c","s">> >>,
      << <<"i","c","r">>, <<"i","c","r">> >>,
      << <<"p","l","a","n","_","v","i","v","o">>, <<"p","l","a","n","_","v","i","v","o">> >>,
      << <<"p","l","a","n","v","i","v","o">>, <<"p","l","a","n","_","v","i","v","o">> >>,
      << <<"o","t","h","e","r">>, <<"o","t","h","e","r">> >>,
      << <<"g","s">>, <<"g","s">> >>,
      << <<"g","o","l","d","_","s","t","a","n","d","a","r","d">>, <<"g","s">> >> }

\* dict.get(key, default) on a dictionary kept as a set of <<key, value>> pairs
DictGet(d, k, default) ==
    IF \E e \in d : e[1] = k
    THEN (CHOOSE e \in d : e[1] = k)[2]
    ELSE default

\* as _normalize_standard_key, without s.lower()
_normalize_standard_key_case_sensitive(s) ==
    IF ~Truthy(s)
    THEN None
    ELSE LET s_low == Replace(Replace(s, "-", "_"), " ", "_")
         IN  DictGet(mapping, s_low, None)

\* as _normalize_standard_key, without replace("-", "_")
_normalize_standard_key_keeping_hyphens(s) ==
    IF ~Truthy(s)
    THEN None
    ELSE LET s_low == Replace(Lower(s), " ", "_")
         IN  DictGet(mapping, s_low, None)

_normalize_standard_key(s) ==
    IF ~Truthy(s)
    THEN None
    ELSE LET s_low == Replace(Replace(Lower(s), "-", "_"), " ", "_")
         IN  DictGet(mapping, s_low, None)

----------------------------------------------------------------------------
(* app/rag_chat.py: batch_chunks *)

\* as batches_from, each slice one element short
RECURSIVE batches_from_short_slices(_, _, _)
batches_from_short_slices(lst, n, i) ==
    IF i >= Len(lst)
    THEN <<>>
    ELSE <<Slice(lst, i, i + n - 1)>> \o batches_from_short_slices(lst, n, i + n)

\* the generator, as the list of the batches it yields; n >= 1 (range() rejects step 0)
RECURSIVE batches_from(_, _, _)
batches_from(lst, n, i) ==
    IF i >= Len(lst)
    THEN <<>>
    ELSE <<Slice(lst, i, i + n)>> \o batches_from(lst, n, i + n)

batch_chunks(lst, n) == batches_from(lst, n, 0)

----------------------------------------------------------------------------
(* app/utils.py: the store registry *)

StoreSpec(path, collection) == [path |-> path, collection |-> collection]

\* an ordered dictionary: a sequence of <<key, value>> pairs
CHROMA_SPECS ==
    << << <<"v","c","s">>,
          << StoreSpec("app/embeddings_vcs/Project_documents", "Project_documents"),
             StoreSpec("app/embeddings_vcs/Standard_documents", "Standard_documents") >> >>,
       << <<"i","c","r">>,
          << StoreSpec("app/embeddings_icr/Project_documents", "Project_documents"),
             StoreSpec("app/embeddings_icr/Standard_documents", "Standard_documents") >> >>,
       << <<"p","l","a","n","_","v","i","v","o">>,
          << StoreSpec("app/embeddings_plan_vivo/Project_documents", "Project_documents"),
             StoreSpec("app/embeddings_plan_vivo/Standard_documents", "Standard_documents") >> >>,
       << <<"o","t","h","e","r">>,
          << StoreSpec("app/embeddings_other_documents/carbon_market_general_document",
                       "carbon_market_general_document"),
             StoreSpec("app/embeddings_other_documents/IPCC", "IPCC") >> >>,
       << <<"g","s">>,
          << StoreSpec("app/embeddings_gs/Project_documents", "Project_documents"),
             StoreSpec("app/embeddings_gs/Standard_documents", "Standard_documents") >> >> >>

\* CHROMA_SPECS.get(sk, [])
SpecsOf(sk) == DictGet(Range(CHROMA_SPECS), sk, <<>>)

\* list(CHROMA_SPECS.keys())
RegistryKeys == [i \in DOMAIN CHROMA_SPECS |-> CHROMA_SPECS[i][1]]

\* the f-string of _load_chroma_db: persist_path ::: (collection_name or 'DEFAULT');
\* an absent collection name is ""
cache_key(persist_path, collection_name) ==
    <<persist_path, IF collection_name # "" THEN collection_name ELSE "DEFAULT">>

KeyOf(spec) == cache_key(spec.path, spec.collection)

AllKeys ==
    UNION {{KeyOf(sp) : sp \in Range(CHROMA_SPECS[i][2])} : i \in DOMAIN CHROMA_SPECS}

----------------------------------------------------------------------------
(* app/utils.py: expand_query_variants *)

\* the character class [A-Za-z0-9\-]
WordChar(c) == c \in Range(LowerCase) \cup Range(UpperCase) \cup Range(Digits) \cup {"-"}

\* re.findall(r"[A-Za-z0-9\-]+", s): the maximal runs of word characters, in order;
\* cur is the run being read
RECURSIVE findall_words(_, _)
findall_words(s, cur) ==
    IF s = <<>>
    THEN IF cur = <<>> THEN <<>> ELSE <<cur>>
    ELSE IF WordChar(Head(s))
         THEN findall_words(Tail(s), Append(cur, Head(s)))
         ELSE (IF cur = <<>> THEN <<>> ELSE <<cur>>) \o findall_words(Tail(s), <<>>)

stop ==
    { <<"w","h","a","t">>, <<"h","o","w">>, <<"t","h","e">>, <<"i","n">>, <<"i","s">>, <<"a">>,
      <<"a","n">>, <<"a","n","d">>, <<"o","r">>, <<"t","o">>, <<"f","o","r">>, <<"o","f">>,
      <<"o","n">>, <<"b","y">>, <<"b","e">>, <<"a","r","e">>, <<"w","a","s">>,
      <<"w","e","r","e">>, <<"i","t">>, <<"t","h","i","s">>, <<"t","h","a","t">>,
      <<"w","i","t","h">>, <<"a","s">>, <<"a","t">>, <<"f","r","o","m">> }

\* str.rstrip("s"): every trailing "s" is removed
RECURSIVE rstrip_s(_)
rstrip_s(w) ==
    IF w # <<>> /\ w[Len(w)] = "s"
    THEN rstrip_s(SubSeq(w, 1, Len(w) - 1))
    ELSE w

\* as keywords, without the test len(w) >= 3
RECURSIVE keywords_of_any_length(_)
keywords_of_any_length(ws) ==
    IF ws = <<>>
    THEN <<>>
    ELSE LET w == Head(ws)
         IN  (IF w \notin stop THEN <<rstrip_s(w)>> ELSE <<>>)
             \o keywords_of_any_length(Tail(ws))

\* [f(w) for w in words if keep(w)] of expand_query_variants
RECURSIVE keywords(_)
keywords(ws) ==
    IF ws = <<>>
    THEN <<>>
    ELSE LET w == Head(ws)
         IN  (IF Len(w) >= 3 /\ w \notin stop THEN <<rstrip_s(w)>> ELSE <<>>)
             \o keywords(Tail(ws))

\* " ".join(ws)
RECURSIVE join_spaces(_)
join_spaces(ws) ==
    IF ws = <<>>
    THEN <<>>
    ELSE IF Len(ws) = 1
         THEN ws[1]
         ELSE ws[1] \o <<" ">> \o join_spaces(Tail(ws))

\* as dedupe, without the removal of repeated strings: list(variants)
dedupe_nothing(lst, seen) == lst

\* list(dict.fromkeys(lst)): first occurrences, in order
RECURSIVE dedupe(_, _)
dedupe(lst, seen) ==
    IF lst = <<>>
    THEN <<>>
    ELSE IF Head(lst) \in seen
         THEN dedupe(Tail(lst), seen)
         ELSE <<Head(lst)>> \o dedupe(Tail(lst), seen \cup {Head(lst)})

\* lines 99-101: the tokens of the lowercased query and the keywords kept of them
words_of(q) == findall_words(Lower(q), <<>>)

kws_of(q) == keywords(words_of(q))

\* as variants_of, the short variant made of the first two keywords
variants_of_first_two(ks, q) ==
    LET v1 == <<q>>
        v2 == IF ks # <<>> THEN Append(v1, join_spaces(ks)) ELSE v1
    IN  IF Len(ks) > 3 THEN Append(v2, join_spaces(SubSeq(ks, 1, 2))) ELSE v2

\* lines 102-106: the variants before line 107 removes the repeated ones
variants_of(ks, q) ==
    LET v1 == <<q>>
        v2 == IF ks # <<>> THEN Append(v1, join_spaces(ks)) ELSE v1
    IN  IF Len(ks) > 3 THEN Append(v2, join_spaces(SubSeq(ks, 1, 3))) ELSE v2

expand_query_variants(q) == dedupe(variants_of(kws_of(q), q), {})

----------------------------------------------------------------------------
(* Bounds of the model *)

\* the most results one similarity search of the model returns
MaxHits == 4

(* Program constants *)

\* top_k=20 in get_answer's call of retrieve_context
TopK == 20

\* batch_size = 5 in get_answer
BatchSize == 5

\* page_content[:200] in get_answer
SnippetLen == 200

----------------------------------------------------------------------------
(* The collaborators: the vector stores and the completion model *)

\* the j-th document of a store: content (a body and its length) and metadata
\* (a dictionary; only some documents carry a page)
Doc(spec, j) ==
    [page_content |-> [body |-> <<spec.path, j>>, len |-> IF j % 2 = 1 THEN 450 ELSE 120],
     metadata |-> IF j % 2 = 1
                  THEN {<<"source", spec.path>>, <<"page", ToString(j)>>}
                  ELSE {<<"source", spec.path>>}]

\* relevance scores, in hundredths; the results of one search come best first
Score(si, vi, j) == 10 + si - 2 * vi - j

\* what similarity_search_with_relevance_scores(vq, k) may return for the si-th
\* store of a standard and the vi-th variant: n (document, score) pairs, n <= k
Hits(spec, si, vi, n) == [j \in 1..n |-> <<Doc(spec, j), Score(si, vi, j)>>]

HitCounts(k) == {n \in {0, MaxHits} : n <= k}

\* the reasons a call of a collaborator fails with
Errors == {"timeout", "rate limit"}

\* the stores in which the model lets every fault happen: those of the first
\* standard of the registry; a store of another standard is missing or opens, and
\* a search in it returns one result
FaultyKeys == {KeyOf(sp) : sp \in Range(CHROMA_SPECS[1][2])}

\* outcomes of one similarity search: it raises, or returns hits
SearchOutcomes(spec, si, vi, k) ==
    IF KeyOf(spec) \in FaultyKeys
    THEN {[raised |-> TRUE, hits |-> <<>>]}
         \cup {[raised |-> FALSE, hits |-> Hits(spec, si, vi, n)] : n \in HitCounts(k)}
    ELSE {[raised |-> FALSE, hits |-> Hits(spec, si, vi, Min(1, k))]}

\* message.content of a completion: pieces of text, with white space around
MapContent(b) == <<" ", "summary of batch", ToString(b), "\n">>

ReduceContents == {<<"\n", "final", " ", "answer", " ">>}

WhiteSpace == {" ", "\n", "\t"}

\* str.strip()
RECURSIVE lstrip(_)
lstrip(t) == IF t # <<>> /\ Head(t) \in WhiteSpace THEN lstrip(Tail(t)) ELSE t

RECURSIVE rstrip(_)
rstrip(t) ==
    IF t # <<>> /\ t[Len(t)] \in WhiteSpace THEN rstrip(SubSeq(t, 1, Len(t) - 1)) ELSE t

strip(t) == rstrip(lstrip(t))

----------------------------------------------------------------------------
(* app/utils.py: _similarity_search_from_db and the ranking of retrieve_context *)

NoHandle == [none |-> TRUE]

\* what a failed search would add were the exception handed on as a result
ErrorHit == <<[page_content |-> [body |-> <<"error", 0>>, len |-> 0], metadata |-> {}], 0>>

\* as _similarity_search_from_db, the except branch returning the error
_similarity_search_from_db_error_as_result(handle, outcome) ==
    IF handle = NoHandle
    THEN <<>>
    ELSE IF outcome.raised THEN <<ErrorHit>> ELSE outcome.hits

\* the try/except of _similarity_search_from_db around the store's search
_similarity_search_from_db(handle, outcome) ==
    IF handle = NoHandle
    THEN <<>>
    ELSE IF outcome.raised THEN <<>> ELSE outcome.hits

\* sorted(..., key=lambda x: x[1], reverse=True) is stable: x goes behind every
\* element whose score is at least its own
RECURSIVE insert_sorted(_, _)
insert_sorted(lst, x) ==
    IF lst = <<>>
    THEN <<x>>
    ELSE IF Head(lst)[2] >= x[2]
         THEN <<Head(lst)>> \o insert_sorted(Tail(lst), x)
         ELSE <<x>> \o lst

RECURSIVE sorted_from(_, _)
sorted_from(lst, acc) ==
    IF lst = <<>> THEN acc ELSE sorted_from(Tail(lst), insert_sorted(acc, Head(lst)))

\* as sorted_by_score_desc, without reverse=True
RECURSIVE insert_ascending(_, _)
insert_ascending(lst, x) ==
    IF lst = <<>>
    THEN <<x>>
    ELSE IF Head(lst)[2] <= x[2]
         THEN <<Head(lst)>> \o insert_ascending(Tail(lst), x)
         ELSE <<x>> \o lst

RECURSIVE ascending_from(_, _)
ascending_from(lst, acc) ==
    IF lst = <<>> THEN acc ELSE ascending_from(Tail(lst), insert_ascending(acc, Head(lst)))

sorted_by_score_ascending(lst) == ascending_from(lst, <<>>)

\* as sorted_by_score_desc, by reversing an ascending sort
sorted_by_score_desc_reversing(lst) ==
    LET a == sorted_by_score_ascending(lst)
    IN  [i \in 1..Len(a) |-> a[Len(a) + 1 - i]]

sorted_by_score_desc(lst) == sorted_from(lst, <<>>)

\* lines 128-134 of retrieve_context with return_scores=True; top_k >= 0
ranked(agg, top_k) ==
    IF agg = <<>>
    THEN <<>>
    ELSE Slice(sorted_by_score_desc(agg), 0, top_k)

----------------------------------------------------------------------------
(* The state of the process *)

Pending == [kind |-> "pending"]

Returned(v) == [kind |-> "returned", value |-> v]

Raised(e) == [kind |-> "raised", error |-> e]

\* d[k] = v on a dictionary kept as a set of <<key, value>> pairs
DictSet(d, k, v) == {e \in d : e[1] # k} \cup {<<k, v>>}

DictKeys(d) == {e[1] : e \in d}

\* the locals of a request that is not running
LocalsIdle ==
    /\ query = None
    /\ selected_standard = None
    /\ original_query = None
    /\ standard_key = None
    /\ variants = <<>>
    /\ search_keys = <<>>
    /\ sk_i = 0
    /\ spec_i = 0
    /\ var_i = 0
    /\ db = NoHandle
    /\ aggregated = <<>>
    /\ results = <<>>
    /\ sources = <<>>
    /\ batch_size = 0
    /\ batch_i = 0
    /\ summaries = <<>>
    /\ result = Pending
    /\ loadLog = <<>>
    /\ searchLog = <<>>
    /\ completionLog = <<>>

PipeInit ==
    /\ pc = "idle"
    /\ LocalsIdle
    /\ chat_state = {}
    /\ _CHROMA_CACHE = {}
    /\ opened = [k \in AllKeys |-> 0]

\* the threads of the process that may be inside _load_chroma_db
Threads == {1, 2}

NoSpec == [none |-> TRUE]

ThreadIdle == [pc |-> "idle", spec |-> NoSpec, db |-> NoHandle]

\* run_app.py lines 109-115: the session defaults
defaults ==
    [chat_history |-> <<>>, main_query |-> <<>>, selected_standard |-> None,
     ask_standard |-> FALSE, pending_query |-> None]

\* no call of expand_query_variants is in progress, no thread is loading a store,
\* the session is new and no ingestion has started
CalleesIdle ==
    /\ words = <<>>
    /\ kws = <<>>
    /\ threads = [t \in Threads |-> ThreadIdle]
    /\ session_state = defaults
    /\ attempts = <<>>
    /\ global_embeddings = 0

FunIdle == arg = None /\ ret = Pending /\ CalleesIdle

Init == PipeInit /\ FunIdle

----------------------------------------------------------------------------
(* app/rag_chat.py: the results get_answer returns before the Map phase *)

ClarificationResult ==
    [clarification |-> <<"Please choose a standard: VCS, ICR, PLAN_VIVO, GS, OTHER">>,
     answer |-> None, sources |-> <<>>, highlights |-> <<>>]

\* as InvalidStandardResult, answering with the clarification
InvalidStandardResult_as_clarification == ClarificationResult

InvalidStandardResult ==
    [answer |-> <<"Invalid or unsupported standard selected.">>,
     sources |-> <<>>, highlights |-> <<>>]

NoInformationResult ==
    [answer |-> <<"No relevant information found.">>, sources |-> <<>>, highlights |-> <<>>]

\* as sources_of, with repeated sources removed
sources_of_deduplicated(res) == dedupe([i \in DOMAIN res |-> res[i][1].metadata], {})

\* sources = [doc.metadata for doc, _ in results]
sources_of(res) == [i \in DOMAIN res |-> res[i][1].metadata]

\* page_content[:n]
Truncate(content, n) == [body |-> content.body, len |-> Min(content.len, n)]

\* the highlights comprehension of get_answer
highlights_of(res) ==
    [i \in DOMAIN res |->
        [snippet |-> <<Truncate(res[i][1].page_content, SnippetLen), "...">>,
         page |-> DictGet(res[i][1].metadata, "page", "N/A")]]

\* as batch_text_of, with enumerate(batch)
batch_text_of_from_zero(batch) ==
    [i \in DOMAIN batch |-> [chunk |-> i - 1, content |-> batch[i][1].page_content]]

\* batch_text of the Map prompt: enumerate(batch, start=1)
batch_text_of(batch) ==
    [i \in DOMAIN batch |-> [chunk |-> i, content |-> batch[i][1].page_content]]

map_prompt_of(q, batch) == [question |-> q, batch_text |-> batch_text_of(batch)]

\* as reduce_prompt_of, joining only the summaries of the batches that did not fail
reduce_prompt_of_without_failed(q, sums) ==
    [question |-> q,
     partial_summaries |->
        SelectSeq(sums, LAMBDA e : e = <<>> \/ e[1] # "[Error summarizing batch: ")]

\* chr(10).join(summaries), kept as the sequence of the joined entries
reduce_prompt_of(q, sums) == [question |-> q, partial_summaries |-> sums]

\* as error_marker, without the reason
error_marker_without_reason(e) == <<"[Error summarizing batch]">>

\* the entry appended to summaries when a Map call raises e
error_marker(e) == <<"[Error summarizing batch: ", e, "]">>

----------------------------------------------------------------------------
(* app/utils.py: the loops of retrieve_context *)

\* as search_keys_of, every standard whatever the selection
search_keys_of_ignoring_selection(s) == RegistryKeys

\* line 117: the standards whose stores are searched
search_keys_of(s) == IF Truthy(s) THEN <<s>> ELSE RegistryKeys

\* the first position <<sk_i, spec_i>> at or after search key ski that has a StoreSpec;
\* <<0, 0>> when the loops are over
RECURSIVE first_store_from(_, _)
first_store_from(keys, ski) ==
    IF ski > Len(keys)
    THEN <<0, 0>>
    ELSE IF SpecsOf(keys[ski]) # <<>>
         THEN <<ski, 1>>
         ELSE first_store_from(keys, ski + 1)

\* as next_store, leaving after the first StoreSpec of a search key
next_store_leaving_early(keys, ski, si) == first_store_from(keys, ski + 1)

\* the position after <<ski, si>>
next_store(keys, ski, si) ==
    IF si < Len(SpecsOf(keys[ski]))
    THEN <<ski, si + 1>>
    ELSE first_store_from(keys, ski + 1)

CurrentSpec == SpecsOf(search_keys[sk_i])[spec_i]

\* as FinishRetrieval, without the `if not results` return of get_answer
FinishRetrieval_no_empty_check(agg) ==
    LET res == ranked(agg, TopK)
    IN  /\ aggregated' = agg
        /\ results' = res
        /\ sk_i' = 0
        /\ spec_i' = 0
        /\ var_i' = 0
        /\ sources' = sources_of(res)
        /\ summaries' = <<>>
        /\ batch_size' = BatchSize
        /\ batch_i' = 0
        /\ pc' = IF res = <<>> THEN "reduce" ELSE "map"
        /\ UNCHANGED <<result, ret>>

\* lines 128-134 of retrieve_context (return_scores=True); when get_answer is the
\* caller (its local standard_key is set), lines 50-57 of get_answer follow
FinishRetrieval(agg) ==
    LET res == ranked(agg, TopK)
    IN  /\ aggregated' = agg
        /\ results' = res
        /\ sk_i' = 0
        /\ spec_i' = 0
        /\ var_i' = 0
        /\ IF standard_key = None
           THEN /\ ret' = Returned(res)
                /\ pc' = "done"
                /\ UNCHANGED <<sources, summaries, batch_size, batch_i, result>>
           ELSE /\ UNCHANGED ret
                /\ IF res = <<>>
                   THEN /\ result' = Returned(NoInformationResult)
                        /\ pc' = "done"
                        /\ UNCHANGED <<sources, summaries, batch_size, batch_i>>
                   ELSE /\ sources' = sources_of(res)
                        /\ summaries' = <<>>
                        /\ batch_size' = BatchSize
                        /\ batch_i' = 0
                        /\ pc' = "map"
                        /\ UNCHANGED result

\* the loops move on to the store at position pos, or end
GoToStore(pos, agg) ==
    IF pos = <<0, 0>>
    THEN FinishRetrieval(agg)
    ELSE /\ sk_i' = pos[1]
         /\ spec_i' = pos[2]
         /\ var_i' = 0
         /\ aggregated' = agg
         /\ pc' = "load"
         /\ UNCHANGED <<results, sources, summaries, batch_size, batch_i, result, ret>>

----------------------------------------------------------------------------
(* The requests the model issues *)

QueryStopWords == <<"t","h","e"," ","i","s"," ","a"," ","o","f">>

QueryTeak == <<"V","C","S"," ","p","r","o","j","e","c","t","s"," ","u","s","e"," ","t","e","a","k"," ","b","i","o","m","a","s","s">>

Queries == {None, <<>>, QueryStopWords, QueryTeak}

OriginalQueries == {None, QueryStopWords}

Labels == {None, <<>>, <<"x","y","z">>, <<"V","e","r","r","a">>}

----------------------------------------------------------------------------
(* app/utils.py: _load_chroma_db *)

\* what the environment decides when a store is loaded that the cache does not hold:
\* the path is missing, Chroma() raises, db.get() raises after the connection
\* was opened, or the store opens
LoadOutcomes(cache, key) ==
    IF key \in DictKeys(cache)
    THEN {"cached"}
    ELSE IF key \in FaultyKeys
         THEN {"missing", "open_raises", "count_raises", "opened"}
         ELSE {"missing", "opened"}

\* as _load_chroma_db, remembering a store that could not be loaded
_load_chroma_db_caching_failures(cache, spec, outcome, nth) ==
    LET key == cache_key(spec.path, spec.collection)
        conn == [path |-> spec.path, collection |-> spec.collection, conn |-> nth]
    IN  IF key \in DictKeys(cache)
        THEN [db |-> DictGet(cache, key, NoHandle), cache |-> cache, connected |-> FALSE]
        ELSE IF outcome = "missing" \/ outcome = "open_raises"
        THEN [db |-> NoHandle, cache |-> DictSet(cache, key, NoHandle), connected |-> FALSE]
        ELSE IF outcome = "count_raises"
        THEN [db |-> NoHandle, cache |-> DictSet(cache, key, NoHandle), connected |-> TRUE]
        ELSE [db |-> conn, cache |-> DictSet(cache, key, conn), connected |-> TRUE]

\* the handle returned, the cache after the call, and whether the call opened
\* a connection; nth numbers the connections opened for the key
_load_chroma_db(cache, spec, outcome, nth) ==
    LET key == cache_key(spec.path, spec.collection)
        conn == [path |-> spec.path, collection |-> spec.collection, conn |-> nth]
    IN  IF key \in DictKeys(cache)
        THEN [db |-> DictGet(cache, key, NoHandle), cache |-> cache, connected |-> FALSE]
        ELSE IF outcome = "missing" \/ outcome = "open_raises"
        THEN [db |-> NoHandle, cache |-> cache, connected |-> FALSE]
        ELSE IF outcome = "count_raises"
        THEN [db |-> NoHandle, cache |-> cache, connected |-> TRUE]
        ELSE [db |-> conn, cache |-> DictSet(cache, key, conn), connected |-> TRUE]

----------------------------------------------------------------------------
(* app/rag_chat.py: get_answer, one action per call of a collaborator *)

\* as retrieval_query, falling back to original_query as line 46 does
retrieval_query_or_original(q, oq) == IF Truthy(q) THEN q ELSE oq

\* line 49: the query get_answer hands to retrieve_context
retrieval_query(q, oq) == q

\* as no_standard, testing only for None
no_standard_only_none(s) == s = None

\* `if not selected_standard` of get_answer
no_standard(s) == ~Truthy(s)

\* get_answer is called: lines 37-49, and retrieve_context up to its first store
Call(q, s, oq) ==
    /\ pc = "idle"
    /\ query' = q
    /\ selected_standard' = s
    /\ original_query' = oq
    /\ loadLog' = <<>>
    /\ searchLog' = <<>>
    /\ completionLog' = <<>>
    /\ db' = NoHandle
    /\ UNCHANGED <<_CHROMA_CACHE, opened, funVars>>
    /\ IF no_standard(s)
       THEN /\ result' = Returned(ClarificationResult)
            /\ pc' = "done"
            /\ UNCHANGED <<standard_key, chat_state, variants, search_keys, sk_i, spec_i,
                           var_i, aggregated, results, sources, summaries, batch_size,
                           batch_i>>
       ELSE LET key == _normalize_standard_key(s)
            IN  IF ~Truthy(key)
                THEN /\ standard_key' = key
                     /\ result' = Returned(InvalidStandardResult)
                     /\ pc' = "done"
                     /\ UNCHANGED <<chat_state, variants, search_keys, sk_i, spec_i, var_i,
                                    aggregated, results, sources, summaries, batch_size,
                                    batch_i>>
                ELSE /\ standard_key' = key
                     /\ chat_state' =
                            DictSet(DictSet(chat_state, "standard_used", key),
                                    "original_query", IF Truthy(q) THEN q ELSE oq)
                     /\ IF ~Truthy(retrieval_query(q, oq))
                        THEN /\ result' = Returned(NoInformationResult)
                             /\ pc' = "done"
                             /\ UNCHANGED <<variants, search_keys, sk_i, spec_i, var_i,
                                            aggregated, results, sources, summaries,
                                            batch_size, batch_i>>
                        ELSE /\ variants' = expand_query_variants(retrieval_query(q, oq))
                             /\ search_keys' = search_keys_of(key)
                             /\ GoToStore(first_store_from(search_keys_of(key), 1), <<>>)

\* _load_chroma_db for the StoreSpec the loop stands at, and `if not db: continue`
LoadStore ==
    /\ pc = "load"
    /\ \E outcome \in LoadOutcomes(_CHROMA_CACHE, KeyOf(CurrentSpec)) :
         LET r == _load_chroma_db(_CHROMA_CACHE, CurrentSpec, outcome, 1)
         IN  /\ db' = r.db
             /\ _CHROMA_CACHE' = r.cache
             /\ loadLog' = Append(loadLog, [key |-> KeyOf(CurrentSpec),
                                        handle |-> r.db # NoHandle])
             /\ IF r.db # NoHandle
                THEN /\ var_i' = 1
                     /\ pc' = "search"
                     /\ UNCHANGED <<sk_i, spec_i, aggregated, results, sources, summaries,
                                    batch_size, batch_i, result, ret>>
                ELSE GoToStore(next_store(search_keys, sk_i, spec_i), aggregated)
    /\ UNCHANGED <<query, selected_standard, original_query, standard_key, chat_state,
                   variants, search_keys, searchLog, completionLog, opened,
                   arg, words, kws, threads, sideVars>>

\* one _similarity_search_from_db(db, vq, k=top_k), and aggregated.extend
Search ==
    /\ pc = "search"
    /\ \E outcome \in SearchOutcomes(CurrentSpec, spec_i, var_i, TopK) :
         /\ LET agg == aggregated \o _similarity_search_from_db(db, outcome)
            IN  IF var_i < Len(variants)
                THEN /\ var_i' = var_i + 1
                     /\ aggregated' = agg
                     /\ UNCHANGED <<pc, sk_i, spec_i, results, sources, summaries,
                                    batch_size, batch_i, result, ret>>
                ELSE GoToStore(next_store(search_keys, sk_i, spec_i), agg)
         /\ searchLog' = Append(searchLog, [key |-> KeyOf(CurrentSpec),
                                            query |-> variants[var_i], k |-> TopK,
                                            outcome |-> outcome])
    /\ UNCHANGED <<query, selected_standard, original_query, standard_key, chat_state,
                   variants, search_keys, db, _CHROMA_CACHE, opened, loadLog,
                   completionLog, arg, words, kws, threads, sideVars>>

\* the reason the completion call for the b-th batch fails with, when it fails
MapError(b) == IF b % 2 = 1 THEN "timeout" ELSE "rate limit"

\* outcomes of the completion call for the b-th batch
MapOutcomes(b) ==
    {[raised |-> FALSE, content |-> MapContent(b), error |-> ""],
     [raised |-> TRUE, content |-> <<>>, error |-> MapError(b)]}

\* the try/except of the Map loop: what is appended to summaries
map_summary(outcome) ==
    IF outcome.raised THEN error_marker(outcome.error) ELSE strip(outcome.content)

\* as MapCall, leaving the loop for the Reduce call when the call raises
MapCall_leaving_at_failure ==
    /\ pc = "map"
    /\ LET batches == batch_chunks(results, batch_size)
           batch == batches[batch_i + 1]
       IN  /\ \E outcome \in MapOutcomes(batch_i + 1) :
                 /\ summaries' = Append(summaries, map_summary(outcome))
                 /\ completionLog' =
                       Append(completionLog,
                              [phase |-> "map", prompt |-> map_prompt_of(query, batch),
                               outcome |-> outcome])
                 /\ pc' = IF batch_i + 1 < Len(batches) /\ ~outcome.raised
                          THEN "map" ELSE "reduce"
           /\ batch_i' = batch_i + 1
    /\ UNCHANGED <<query, selected_standard, original_query, standard_key, chat_state,
                   variants, search_keys, sk_i, spec_i, var_i, db, aggregated, results,
                   sources, batch_size, result, _CHROMA_CACHE, opened, loadLog,
                   searchLog, funVars>>

\* one pass of the Map loop: the completion call for the next batch
MapCall ==
    /\ pc = "map"
    /\ LET batches == batch_chunks(results, batch_size)
           batch == batches[batch_i + 1]
       IN  /\ \E outcome \in MapOutcomes(batch_i + 1) :
                 /\ summaries' = Append(summaries, map_summary(outcome))
                 /\ completionLog' =
                       Append(completionLog,
                              [phase |-> "map", prompt |-> map_prompt_of(query, batch),
                               outcome |-> outcome])
           /\ batch_i' = batch_i + 1
           /\ pc' = IF batch_i + 1 < Len(batches) THEN "map" ELSE "reduce"
    /\ UNCHANGED <<query, selected_standard, original_query, standard_key, chat_state,
                   variants, search_keys, sk_i, spec_i, var_i, db, aggregated, results,
                   sources, batch_size, result, _CHROMA_CACHE, opened, loadLog,
                   searchLog, funVars>>

ReduceOutcomes ==
    {[raised |-> FALSE, content |-> c, error |-> ""] : c \in ReduceContents}
    \cup {[raised |-> TRUE, content |-> <<>>, error |-> e] : e \in Errors}

\* as reduce_result, with the Reduce call's failure answered like a failed batch
reduce_result_swallowing(outcome, srcs, res) ==
    Returned([answer |-> IF outcome.raised
                         THEN <<"[Error: ", outcome.error, "]">>
                         ELSE strip(outcome.content),
              sources |-> srcs, highlights |-> highlights_of(res)])

\* lines 103-117: what get_answer ends with, given the Reduce call's outcome
reduce_result(outcome, srcs, res) ==
    IF outcome.raised
    THEN Raised(outcome.error)
    ELSE Returned([answer |-> strip(outcome.content), sources |-> srcs,
                   highlights |-> highlights_of(res)])

\* as ReduceCall, calling again when the call raises
ReduceCall_retrying ==
    /\ pc = "reduce"
    /\ \E outcome \in ReduceOutcomes :
          /\ result' = IF outcome.raised THEN result
                       ELSE reduce_result(outcome, sources, results)
          /\ completionLog' =
                Append(completionLog,
                       [phase |-> "reduce", prompt |-> reduce_prompt_of(query, summaries),
                        outcome |-> outcome])
          /\ pc' = IF outcome.raised THEN "reduce" ELSE "done"
    /\ UNCHANGED <<query, selected_standard, original_query, standard_key, chat_state,
                   variants, search_keys, sk_i, spec_i, var_i, db, aggregated, results,
                   sources, batch_size, batch_i, summaries, _CHROMA_CACHE, opened,
                   loadLog, searchLog, funVars>>

\* the Reduce call and the assembly of the result
ReduceCall ==
    /\ pc = "reduce"
    /\ \E outcome \in ReduceOutcomes :
          /\ result' = reduce_result(outcome, sources, results)
          /\ completionLog' =
                Append(completionLog,
                       [phase |-> "reduce", prompt |-> reduce_prompt_of(query, summaries),
                        outcome |-> outcome])
    /\ pc' = "done"
    /\ UNCHANGED <<query, selected_standard, original_query, standard_key, chat_state,
                   variants, search_keys, sk_i, spec_i, var_i, db, aggregated, results,
                   sources, batch_size, batch_i, summaries, _CHROMA_CACHE, opened,
                   loadLog, searchLog, funVars>>

\* the caller has the result (or the exception); the locals are gone
Return ==
    /\ pc = "done"
    /\ pc' = "idle"
    /\ query' = None
    /\ selected_standard' = None
    /\ original_query' = None
    /\ standard_key' = None
    /\ variants' = <<>>
    /\ search_keys' = <<>>
    /\ sk_i' = 0
    /\ spec_i' = 0
    /\ var_i' = 0
    /\ db' = NoHandle
    /\ aggregated' = <<>>
    /\ results' = <<>>
    /\ sources' = <<>>
    /\ batch_size' = 0
    /\ batch_i' = 0
    /\ summaries' = <<>>
    /\ result' = Pending
    /\ loadLog' = <<>>
    /\ searchLog' = <<>>
    /\ completionLog' = <<>>
    /\ UNCHANGED <<chat_state, _CHROMA_CACHE, opened, funVars>>

\* retrieve_context is called on its own (top_k=20, return_scores=True):
\* lines 111-117, up to its first store
CallRetrieve(q, s) ==
    /\ pc = "idle"
    /\ ret = Pending
    /\ arg' = [query |-> q, selected_standard |-> s]
    /\ query' = q
    /\ selected_standard' = s
    /\ loadLog' = <<>>
    /\ searchLog' = <<>>
    /\ completionLog' = <<>>
    /\ db' = NoHandle
    /\ UNCHANGED <<original_query, standard_key, chat_state, _CHROMA_CACHE, opened,
                   words, kws, threads, sideVars>>
    /\ IF ~Truthy(q)
       THEN /\ ret' = Returned(<<>>)
            /\ pc' = "done"
            /\ UNCHANGED <<variants, search_keys, sk_i, spec_i, var_i, aggregated, results,
                           sources, summaries, batch_size, batch_i, result>>
       ELSE /\ variants' = expand_query_variants(q)
            /\ search_keys' = search_keys_of(s)
            /\ GoToStore(first_store_from(search_keys_of(s), 1), <<>>)

Next ==
    \/ \E q \in Queries, s \in Labels, oq \in OriginalQueries : Call(q, s, oq)
    \/ LoadStore
    \/ Search
    \/ MapCall
    \/ ReduceCall
    \/ Return

Spec == Init /\ [][Next]_vars

----------------------------------------------------------------------------
(* Properties of get_answer, checked under Spec *)

IsMapEntry(e) == e.phase = "map"

IsReduceEntry(e) == e.phase = "reduce"

\* the Map-phase and Reduce-phase calls of the request, in the order issued
MapLog == SelectSeq(completionLog, IsMapEntry)

ReduceLog == SelectSeq(completionLog, IsReduceEntry)

\* the aliases and their canonical keys
AliasKeys ==
    { << <<"v","c","s">>, <<"v","c","s">> >>,
      << <<"v","e","r","r","a">>, <<"v","c","s">> >>,
      << <<"i","c","r">>, <<"i","c","r">> >>,
      << <<"p","l","a","n","_","v","i","v","o">>, <<"p","l","a","n","_","v","i","v","o">> >>,
      << <<"p","l","a","n","v","i","v","o">>, <<"p","l","a","n","_","v","i","v","o">> >>,
      << <<"o","t","h","e","r">>, <<"o","t","h","e","r">> >>,
      << <<"g","s">>, <<"g","s">> >>,
      << <<"g","o","l","d","_","s","t","a","n","d","a","r","d">>, <<"g","s">> >> }

Separators == {"_", "-", " "}

\* the label spells the alias: letter by letter in any case, a separator of the
\* alias written as underscore, hyphen or space
Spells(label, alias) ==
    /\ label # None
    /\ Len(label) = Len(alias)
    /\ \A i \in DOMAIN alias :
          \/ LowerChar(label[i]) = alias[i]
          \/ alias[i] \in Separators /\ label[i] \in Separators

KnownLabel(label) == \E e \in AliasKeys : Spells(label, e[1])

\* C1: a request without a standard (None or empty) ends, whatever the query, in
\* the clarification result (a prompt text, answer None, no sources, no highlights)
\* and has loaded no store, searched nothing and called no completion.
C1_ClarificationWithoutStandard ==
    (pc # "idle" /\ (selected_standard = None \/ selected_standard = <<>>)) =>
        /\ pc = "done"
        /\ result.kind = "returned"
        /\ DOMAIN result.value = {"clarification", "answer", "sources", "highlights"}
        /\ Truthy(result.value.clarification)
        /\ result.value.answer = None
        /\ result.value.sources = <<>>
        /\ result.value.highlights = <<>>
        /\ loadLog = <<>>
        /\ searchLog = <<>>
        /\ completionLog = <<>>

C1_Witness ==
    /\ pc = "done"
    /\ selected_standard = <<>>
    /\ query = QueryTeak
    /\ result.kind = "returned"

\* C2: a request whose standard is given but spells no alias ends in a returned
\* result with an answer text, no sources, no highlights and no clarification
\* field; nothing is raised, no store is loaded or searched, no completion called.
C2_UnrecognizedStandardIsAnswered ==
    (pc # "idle" /\ Truthy(selected_standard) /\ ~KnownLabel(selected_standard)) =>
        /\ pc = "done"
        /\ result.kind = "returned"
        /\ DOMAIN result.value = {"answer", "sources", "highlights"}
        /\ Truthy(result.value.answer)
        /\ result.value.sources = <<>>
        /\ result.value.highlights = <<>>
        /\ loadLog = <<>>
        /\ searchLog = <<>>
        /\ completionLog = <<>>

C2_Witness ==
    /\ pc = "done"
    /\ selected_standard = <<"x","y","z">>
    /\ query = QueryTeak
    /\ result.kind = "returned"

\* C3: with a recognized standard, as long as the searches have returned nothing
\* no completion is called, and when they all have, the request returns exactly
\* the answer "No relevant information found." with no sources and no highlights.
C3_EmptyRetrievalShortCircuits ==
    (pc # "idle" /\ KnownLabel(selected_standard) /\ aggregated = <<>>) =>
        /\ pc \in {"load", "search", "done"}
        /\ completionLog = <<>>
        /\ pc = "done" =>
              result = [kind |-> "returned",
                        value |-> [answer |-> <<"No relevant information found.">>,
                                   sources |-> <<>>, highlights |-> <<>>]]

C3_Witness ==
    /\ pc = "done"
    /\ KnownLabel(selected_standard)
    /\ Len(searchLog) = 6
    /\ aggregated = <<>>
    /\ result.kind = "returned"

\* C26: a request with a recognized standard and a query that is None or empty
\* ends at once with the answer "No relevant information found." and no sources
\* and no highlights: it loads no store, makes no search and calls no
\* completion, whether or not original_query is given.
C26_EmptyQueryIsNotRetrieved ==
    (pc # "idle" /\ KnownLabel(selected_standard) /\ (query = None \/ query = <<>>)) =>
        /\ pc = "done"
        /\ result = [kind |-> "returned",
                     value |-> [answer |-> <<"No relevant information found.">>,
                                sources |-> <<>>, highlights |-> <<>>]]
        /\ loadLog = <<>>
        /\ searchLog = <<>>
        /\ completionLog = <<>>

\* an empty query with an original_query that would retrieve
C26_Witness ==
    /\ pc = "done"
    /\ query = <<>>
    /\ original_query = QueryStopWords
    /\ KnownLabel(selected_standard)
    /\ result.kind = "returned"
    /\ DictGet(chat_state, "original_query", None) = QueryStopWords

\* ceil(len(results) / 5)
NumBatches == (Len(results) + 4) \div 5

IsErrorMarker(entry, reason) ==
    /\ entry # <<>>
    /\ Head(entry) = "[Error summarizing batch: "
    /\ reason \in Range(entry)

\* C4: whichever Map calls raise, the loop goes through every batch, the Reduce
\* call is issued with one summary per batch, the entry of a failed batch being
\* an error marker that holds the failure reason, and when the Reduce call
\* succeeds the request returns its answer.
C4_MapFailuresAreIsolated ==
    /\ pc = "map" => Len(MapLog) = batch_i /\ batch_i < NumBatches /\ result = Pending
    /\ (pc \in {"reduce", "done"} /\ results # <<>>) =>
          /\ Len(MapLog) = NumBatches
          /\ Len(summaries) = NumBatches
          /\ \A k \in 1..NumBatches :
                IF MapLog[k].outcome.raised
                THEN IsErrorMarker(summaries[k], MapLog[k].outcome.error)
                ELSE summaries[k] = strip(MapLog[k].outcome.content)
          /\ pc = "done" =>
                /\ Len(ReduceLog) = 1
                /\ ReduceLog[1].prompt.partial_summaries = summaries
                /\ ~ReduceLog[1].outcome.raised =>
                      /\ result.kind = "returned"
                      /\ result.value.answer = strip(ReduceLog[1].outcome.content)

C4_Witness ==
    /\ pc = "done"
    /\ result.kind = "returned"
    /\ Len(MapLog) = 4
    /\ MapLog[1].outcome.raised
    /\ ~MapLog[2].outcome.raised
    /\ MapLog[3].outcome.raised
    /\ MapLog[4].outcome.raised

\* C5: when the Reduce call raises, the request ends with that exception and
\* returns nothing, however many Map batches succeeded.
C5_ReduceFailurePropagates ==
    (pc = "done" /\ ReduceLog # <<>> /\ ReduceLog[Len(ReduceLog)].outcome.raised) =>
        /\ result.kind = "raised"
        /\ result.error = ReduceLog[Len(ReduceLog)].outcome.error
        /\ DOMAIN result = {"kind", "error"}

C5_Witness ==
    /\ pc = "done"
    /\ result.kind = "raised"
    /\ Len(MapLog) = 3
    /\ \A k \in 1..3 : ~MapLog[k].outcome.raised

\* C6: a returned result has as many sources and as many highlights as the ranked
\* context has chunks, and the i-th source and the i-th highlight are those of
\* the i-th chunk.
C6_SourcesAndHighlightsFollowRanking ==
    (pc = "done" /\ result.kind = "returned") =>
        /\ Len(result.value.sources) = Len(results)
        /\ Len(result.value.highlights) = Len(results)
        /\ \A i \in 1..Len(results) :
              /\ result.value.sources[i] = results[i][1].metadata
              /\ result.value.highlights[i].snippet[1].body = results[i][1].page_content.body
              /\ result.value.highlights[i].page =
                    IF \E e \in results[i][1].metadata : e[1] = "page"
                    THEN (CHOOSE e \in results[i][1].metadata : e[1] = "page")[2]
                    ELSE "N/A"

\* a truncated ranked context in which one document stands twice
C6_Witness ==
    /\ pc = "done"
    /\ result.kind = "returned"
    /\ Len(aggregated) > Len(results)
    /\ Len(result.value.sources) = 20
    /\ \E i, j \in 1..Len(results) : i < j /\ results[i][1] = results[j][1]

\* C9: a request issues at most one Reduce call; when it has ended it has issued
\* exactly one if its ranked context is non-empty and none otherwise
\* (clarification, unrecognized standard, empty retrieval).
C9_ExactlyOneReduceCall ==
    /\ Len(ReduceLog) <= 1
    /\ pc = "done" => Len(ReduceLog) = (IF results # <<>> THEN 1 ELSE 0)
    /\ pc \in {"idle", "load", "search", "map", "reduce"} => ReduceLog = <<>>

C9_Witness ==
    /\ pc = "done"
    /\ results # <<>>
    /\ Len(ReduceLog) = 1
    /\ ReduceLog[1].outcome.raised

\* the chunks of the k-th batch (k counted from 1) as the Map prompt shows them
BatchTextAt(k) ==
    [i \in 1..Min(BatchSize, Len(results) - BatchSize * (k - 1)) |->
        [chunk |-> i, content |-> results[BatchSize * (k - 1) + i][1].page_content]]

\* C23: the Reduce prompt joins exactly one entry per batch, in batch order: the
\* k-th Map call was made for the k-th batch, and the k-th joined entry is the
\* stripped summary that call returned, or the error marker with the reason it
\* failed with, whichever batches failed.
C23_OneSummaryPerBatchInOrder ==
    ReduceLog # <<>> =>
        LET joined == ReduceLog[1].prompt.partial_summaries
        IN  /\ Len(joined) = NumBatches
            /\ Len(MapLog) = NumBatches
            /\ \A k \in 1..NumBatches :
                  /\ MapLog[k].prompt.batch_text = BatchTextAt(k)
                  /\ joined[k] =
                        IF MapLog[k].outcome.raised
                        THEN <<"[Error summarizing batch: ", MapLog[k].outcome.error, "]">>
                        ELSE strip(MapLog[k].outcome.content)

\* three batches, of which only the second failed
C23_Witness ==
    /\ pc = "done"
    /\ Len(ReduceLog) = 1
    /\ Len(MapLog) = 3
    /\ ~MapLog[1].outcome.raised
    /\ MapLog[2].outcome.raised
    /\ ~MapLog[3].outcome.raised
    /\ ReduceLog[1].prompt.partial_summaries[3] = <<"summary of batch", "3">>

\* the stages of a request, as its logs show them
StagesInOrder ==
    /\ pc \in {"load", "search"} => completionLog = <<>>
    /\ completionLog # <<>> => pc \in {"map", "reduce", "done"}
    /\ \A i, j \in 1..Len(completionLog) :
          (i < j /\ completionLog[j].phase = "map") => completionLog[i].phase = "map"
    /\ Len(MapLog) <= NumBatches
    /\ \A k \in 1..Len(MapLog) : MapLog[k].prompt.batch_text = BatchTextAt(k)
    /\ pc = "map" => Len(completionLog) = batch_i /\ batch_i < NumBatches
    /\ ReduceLog # <<>> =>
          /\ Len(MapLog) = NumBatches
          /\ completionLog[Len(completionLog)].phase = "reduce"

\* C24: within a request the stages run in order. No load or search is made once
\* a completion call has been issued, the k-th completion call of the Map phase
\* is the one for the k-th batch, each is issued when the one before has
\* returned or failed, and the Reduce call is issued after the call for the
\* last batch and is the last call of the request.
C24_StagesRunInOrder ==
    /\ []StagesInOrder
    /\ [][(completionLog # <<>> /\ completionLog' # <<>>) =>
             (searchLog' = searchLog /\ loadLog' = loadLog)]_vars
    /\ [][(pc = "map" /\ completionLog' # completionLog) =>
             (completionLog' = Append(completionLog, completionLog'[Len(completionLog')])
              /\ completionLog'[Len(completionLog')].phase = "map")]_vars

\* a request that searched both stores with three variants, summarized four
\* batches, the last of them failing, and made its Reduce call
C24_Witness ==
    /\ pc = "done"
    /\ Len(searchLog) = 6
    /\ Len(MapLog) = 4
    /\ MapLog[4].outcome.raised
    /\ Len(ReduceLog) = 1
    /\ Len(completionLog) = 5

\* the chunks shown by the first k Map prompts of the request
RECURSIVE ChunksShown(_)
ChunksShown(k) ==
    IF k = 0 THEN 0 ELSE Len(MapLog[k].prompt.batch_text) + ChunksShown(k - 1)

\* the chunk at position p of the ranked context (p counted from 1) is CHUNK
\* ((p - 1) % 5) + 1 of the batch (p - 1) \div 5 (counted from 0), and the p-th
\* source and the p-th highlight are its own
ChunkKeepsItsPosition(p) ==
    LET j == (p - 1) \div BatchSize
        i == ((p - 1) % BatchSize) + 1
        shown == MapLog[j + 1].prompt.batch_text
    IN  /\ i \in DOMAIN shown
        /\ shown[i].chunk = i
        /\ shown[i].content = results[p][1].page_content
        /\ result.value.sources[p] = results[p][1].metadata
        /\ result.value.highlights[p].snippet[1].body = results[p][1].page_content.body

\* C25: every chunk of the ranked context is shown in exactly one Map batch: the
\* chunk labeled CHUNK i of the j-th batch (j from 0) is the chunk at position
\* 5*j + i - 1, the position of its entries in sources and highlights, and the
\* Map prompts show as many chunks as the ranked context holds; the ranked
\* context is not modified from the ranking to the assembly of the result.
C25_ChunksKeepTheirPositions ==
    /\ [](  (pc = "done" /\ result.kind = "returned" /\ results # <<>>) =>
              /\ ChunksShown(Len(MapLog)) = Len(results)
              /\ \A p \in 1..Len(results) : ChunkKeepsItsPosition(p)  )
    /\ [][(pc \in {"map", "reduce"}) => (results' = results)]_vars

\* a ranked context of twelve chunks: the last batch holds two
C25_Witness ==
    /\ pc = "done"
    /\ result.kind = "returned"
    /\ Len(results) = 12
    /\ Len(MapLog) = 3
    /\ Len(MapLog[3].prompt.batch_text) = 2
    /\ MapLog[3].prompt.batch_text[2].content = results[12][1].page_content
    /\ results[12][1] # results[11][1]

----------------------------------------------------------------------------
(* The Map loop on its own: any ranked context, any batch size *)

\* the longest ranked context and the largest batch size of MapSpec
MaxChunks == 12

MaxBatchSize == 6

\* a ranked context of m chunks
ContextOf(m) == [j \in 1..m |-> <<Doc(CHROMA_SPECS[1][2][1], j), 100 - j>>]

\* get_answer stands before its Map loop
MapInit ==
    /\ \E m \in 0..MaxChunks : \E b \in 1..MaxBatchSize :
          /\ results = ContextOf(m)
          /\ batch_size = b
          /\ pc = IF m = 0 THEN "reduce" ELSE "map"
    /\ sources = sources_of(results)
    /\ aggregated = results
    /\ query = QueryStopWords
    /\ selected_standard = <<"v","c","s">>
    /\ original_query = None
    /\ standard_key = <<"v","c","s">>
    /\ variants = <<QueryStopWords>>
    /\ search_keys = <<standard_key>>
    /\ sk_i = 0
    /\ spec_i = 0
    /\ var_i = 0
    /\ db = NoHandle
    /\ batch_i = 0
    /\ summaries = <<>>
    /\ result = Pending
    /\ loadLog = <<>>
    /\ searchLog = <<>>
    /\ completionLog = <<>>
    /\ chat_state = {}
    /\ _CHROMA_CACHE = {}
    /\ opened = [k \in AllKeys |-> 0]
    /\ FunIdle

MapNext == MapCall

MapSpec == MapInit /\ [][MapNext]_vars

\* C8: for M ranked chunks and batch size B the Map loop issues ceil(M / B)
\* completion calls; the k-th call carries the chunks (k-1)*B+1 .. min(k*B, M) of
\* the ranked context, in order, labeled from 1; every batch but the last has
\* B chunks and the last has between 1 and B.
C8_MapBatching ==
    pc = "reduce" =>
        LET M == Len(results)
            B == batch_size
            n == (M + B - 1) \div B
        IN  /\ Len(MapLog) = n
            /\ \A k \in 1..n :
                  LET text == MapLog[k].prompt.batch_text
                  IN  /\ k < n => Len(text) = B
                      /\ k = n => Len(text) \in 1..B
                      /\ (k - 1) * B + Len(text) <= M
                      /\ \A i \in 1..Len(text) :
                            /\ text[i].chunk = i
                            /\ text[i].content = results[(k - 1) * B + i][1].page_content
            /\ n > 0 => (n - 1) * B + Len(MapLog[n].prompt.batch_text) = M

\* 12 chunks in batches of 5: sizes 5, 5, 2
C8_Witness ==
    /\ pc = "reduce"
    /\ Len(results) = 12
    /\ batch_size = 5
    /\ Len(MapLog) = 3
    /\ Len(MapLog[1].prompt.batch_text) = 5
    /\ Len(MapLog[2].prompt.batch_text) = 5
    /\ Len(MapLog[3].prompt.batch_text) = 2

----------------------------------------------------------------------------
(* The ranking of retrieve_context on its own *)

\* the most aggregated chunks and the highest score of RankSpec
MaxAggregated == 5

MaxScore == 2

\* the aggregated chunks of RankSpec: n chunks with the scores sc; they are
\* numbered, so that an omitted chunk can be told from an included one
AggregatedOf(n, sc) == [i \in 1..n |-> <<i, sc[i]>>]

RankInit ==
    /\ PipeInit
    /\ CalleesIdle
    /\ ret = Pending
    /\ \E n \in 0..MaxAggregated : \E sc \in [1..n -> 0..MaxScore] :
          \E k \in 0..(MaxAggregated + 1) :
             arg = [aggregated |-> AggregatedOf(n, sc), top_k |-> k]

\* lines 128-134 of retrieve_context applied to arg
ApplyRank ==
    /\ ret = Pending
    /\ ret' = Returned(ranked(arg.aggregated, arg.top_k))
    /\ UNCHANGED <<arg, words, kws, threads, sideVars, pipeVars>>

RankNext == ApplyRank

RankSpec == RankInit /\ [][RankNext]_vars

\* C7: of N aggregated chunks the ranking returns min(N, K), in descending order
\* of score, each an aggregated chunk taken once, and no chunk left out scores
\* strictly higher than a chunk returned.
C7_RankingKeepsTheBest ==
    ret.kind = "returned" =>
        LET agg == arg.aggregated
            out == ret.value
        IN  /\ Len(out) = Min(Len(agg), arg.top_k)
            /\ \A i \in 1..(Len(out) - 1) : out[i][2] >= out[i + 1][2]
            /\ \A i \in 1..Len(out) : out[i] \in Range(agg)
            /\ \A i, j \in 1..Len(out) : i # j => out[i] # out[j]
            /\ \A x \in Range(agg) \ Range(out) : \A y \in Range(out) : x[2] <= y[2]

\* more chunks than top_k, given in ascending order of score
C7_Witness ==
    /\ ret.kind = "returned"
    /\ Len(arg.aggregated) = 4
    /\ arg.top_k = 2
    /\ arg.aggregated[1][2] < arg.aggregated[2][2]
    /\ arg.aggregated[2][2] < arg.aggregated[4][2]
    /\ Len(ret.value) = 2

\* C22: the ranking is stable. Chunks of equal score are returned in their order
\* of aggregation (the chunks of RankSpec carry their position in aggregated),
\* and of chunks of equal score the ones aggregated first survive the
\* truncation to top_k.
C22_RankingIsStable ==
    ret.kind = "returned" =>
        LET agg == arg.aggregated
            out == ret.value
        IN  /\ \A i, j \in 1..Len(out) :
                  (i < j /\ out[i][2] = out[j][2]) => out[i][1] < out[j][1]
            /\ \A x \in Range(agg) \ Range(out) : \A y \in Range(out) :
                  x[2] = y[2] => y[1] < x[1]

\* the cut goes through chunks of equal score: the first and the third chunk tie
\* below the second, and two chunks are returned
C22_Witness ==
    /\ ret.kind = "returned"
    /\ Len(arg.aggregated) = 4
    /\ arg.top_k = 2
    /\ arg.aggregated[1][2] = arg.aggregated[3][2]
    /\ arg.aggregated[2][2] > arg.aggregated[1][2]
    /\ arg.aggregated[4][2] < arg.aggregated[1][2]
    /\ ret.value = <<arg.aggregated[2], arg.aggregated[1]>>

----------------------------------------------------------------------------
(* The resolver on its own *)

\* the longest label built from LabelAlphabet
MaxLabelLen == 3

LabelAlphabet == {"g", "s", "V", "-"}

UpperChar(c) ==
    IF \E i \in DOMAIN LowerCase : LowerCase[i] = c
    THEN UpperCase[CHOOSE i \in DOMAIN LowerCase : LowerCase[i] = c]
    ELSE c

\* every way of writing the alias: each letter in either case, each underscore as
\* underscore, hyphen or space
RECURSIVE Spellings(_)
Spellings(alias) ==
    IF alias = <<>>
    THEN {<<>>}
    ELSE LET firsts == IF Head(alias) = "_"
                       THEN Separators
                       ELSE {Head(alias), UpperChar(Head(alias))}
         IN  {<<c>> \o rest : c \in firsts, rest \in Spellings(Tail(alias))}

ShortLabels(n) == [1..n -> LabelAlphabet]

OtherLabels ==
    { None,
      <<"x","y","z">>,
      <<"g","o","l","d","s","t","a","n","d","a","r","d">>,
      <<"v","c","s"," ">>,
      <<"v","e","r","r">>,
      <<"p","l","a","n","_","_","v","i","v","o">>,
      <<"I","C","R","s">> }

\* arg is a spelling of an alias, a short label or one of the other labels
ResolverInit ==
    /\ PipeInit
    /\ CalleesIdle
    /\ ret = Pending
    /\ \/ \E e \in AliasKeys : arg \in Spellings(e[1])
       \/ \E n \in 0..MaxLabelLen : arg \in ShortLabels(n)
       \/ arg \in OtherLabels

\* _normalize_standard_key applied to arg
ApplyResolve ==
    /\ ret = Pending
    /\ ret' = Returned(_normalize_standard_key(arg))
    /\ UNCHANGED <<arg, words, kws, threads, sideVars, pipeVars>>

ResolverNext == ApplyResolve

ResolverSpec == ResolverInit /\ [][ResolverNext]_vars

\* the label is the alias up to letter case
SpellsInSomeCase(label, alias) ==
    /\ label # None
    /\ Len(label) = Len(alias)
    /\ \A i \in DOMAIN alias : LowerChar(label[i]) = alias[i]

\* C10: an alias written in any letter case resolves to the canonical key of the
\* alias, and a label that spells no alias (in any case, with any separator)
\* resolves to None, the unrecognized outcome.
C10_AliasesResolveInAnyCase ==
    ret.kind = "returned" =>
        /\ \A e \in AliasKeys : SpellsInSomeCase(arg, e[1]) => ret.value = e[2]
        /\ ~KnownLabel(arg) => ret.value = None

C10_Witness ==
    /\ ret.kind = "returned"
    /\ arg = <<"G","o","L","d","_","S","t","a","n","D","A","R","d">>
    /\ ret.value = <<"g","s">>

\* C28: a canonical key the resolver returns is a key of the registry, registered
\* with at least one StoreSpec, and the resolver maps it to itself.
C28_CanonicalKeysAreRegistered ==
    (ret.kind = "returned" /\ ret.value # None) =>
        /\ \E i \in DOMAIN CHROMA_SPECS :
              /\ CHROMA_SPECS[i][1] = ret.value
              /\ Len(CHROMA_SPECS[i][2]) >= 1
        /\ _normalize_standard_key(ret.value) = ret.value
        /\ \A e \in mapping : e[2] = arg => ret.value = arg

\* the resolver applied to one of its own outputs
C28_Witness ==
    /\ ret.kind = "returned"
    /\ arg = <<"p","l","a","n","_","v","i","v","o">>
    /\ ret.value = arg

----------------------------------------------------------------------------
(* retrieve_context called on its own, with and without a standard *)

\* the calls of RetrieveSpec: <<query, selected_standard>>
RetrieveCalls ==
    { <<QueryStopWords, None>>,
      <<QueryStopWords, <<>> >>,
      <<QueryStopWords, <<"v","c","s">> >>,
      <<QueryTeak, <<"g","s">> >>,
      <<QueryStopWords, <<"x","y","z">> >>,
      << <<>>, None>>,
      <<None, <<"i","c","r">> >> }

\* the cache in which every store of the registry was opened before
FullCache ==
    UNION {{<<KeyOf(sp), [path |-> sp.path, collection |-> sp.collection, conn |-> 1]>> :
              sp \in Range(CHROMA_SPECS[i][2])} : i \in DOMAIN CHROMA_SPECS}

\* the process has loaded no store yet, or every store
RetrieveInit ==
    /\ pc = "idle"
    /\ LocalsIdle
    /\ chat_state = {}
    /\ _CHROMA_CACHE \in {{}, FullCache}
    /\ opened = [k \in AllKeys |-> 0]
    /\ FunIdle

RetrieveNext ==
    \/ \E c \in RetrieveCalls : CallRetrieve(c[1], c[2])
    \/ LoadStore
    \/ Search

RetrieveSpec == RetrieveInit /\ [][RetrieveNext]_vars

\* the cache keys of the i-th standard of the registry, in registry order
StandardKeys(i) == [j \in DOMAIN CHROMA_SPECS[i][2] |-> KeyOf(CHROMA_SPECS[i][2][j])]

RECURSIVE AllStandardKeys(_)
AllStandardKeys(i) ==
    IF i > Len(CHROMA_SPECS) THEN <<>> ELSE StandardKeys(i) \o AllStandardKeys(i + 1)

\* the stores a retrieval has to go through: those of the standard, or all
ExpectedKeys(s) ==
    IF s = None \/ s = <<>>
    THEN AllStandardKeys(1)
    ELSE IF \E i \in DOMAIN CHROMA_SPECS : CHROMA_SPECS[i][1] = s
         THEN StandardKeys(CHOOSE i \in DOMAIN CHROMA_SPECS : CHROMA_SPECS[i][1] = s)
         ELSE <<>>

LoadedKeys == [i \in DOMAIN loadLog |-> loadLog[i].key]

PositionIn(keys, k) == CHOOSE i \in DOMAIN keys : keys[i] = k

\* C15: a retrieval loads the stores registered for the selected standard, one
\* after the other in registry order, and no other store; without a standard it
\* loads the stores of every registered standard; it searches only stores it has
\* loaded a handle of, in that order, and when it has ended it has loaded every
\* such store and searched each one it has a handle of.
C15_SearchesTheRegisteredStores ==
    (pc \in {"load", "search", "done"} /\ Truthy(query)) =>
        LET expected == ExpectedKeys(selected_standard)
        IN  /\ Len(LoadedKeys) <= Len(expected)
            /\ LoadedKeys = SubSeq(expected, 1, Len(LoadedKeys))
            /\ \A i \in DOMAIN searchLog :
                  \E j \in DOMAIN loadLog :
                     loadLog[j].key = searchLog[i].key /\ loadLog[j].handle
            /\ \A i, j \in DOMAIN searchLog :
                  i < j => PositionIn(expected, searchLog[i].key)
                              <= PositionIn(expected, searchLog[j].key)
            /\ pc = "done" =>
                  /\ LoadedKeys = expected
                  /\ \A j \in DOMAIN loadLog :
                        loadLog[j].handle =>
                           \E i \in DOMAIN searchLog : searchLog[i].key = loadLog[j].key

\* no standard: all ten stores were loaded, some without a handle
C15_Witness ==
    /\ pc = "done"
    /\ selected_standard = None
    /\ Len(loadLog) = 10
    /\ ~loadLog[1].handle
    /\ loadLog[2].handle
    /\ ~loadLog[5].handle
    /\ loadLog[10].handle
    /\ Len(searchLog) = 7
    /\ ret.kind = "returned"

----------------------------------------------------------------------------
(* Properties of the retrieval of a get_answer request, checked under Spec *)

\* the canonical key of a label that spells an alias
CanonicalKeyOf(label) == (CHOOSE e \in AliasKeys : Spells(label, e[1]))[2]

\* the request has a recognized standard and a non-empty query: it retrieves
Retrieves == pc # "idle" /\ KnownLabel(selected_standard) /\ Truthy(query)

RetrievalEnded == Retrieves /\ pc \in {"map", "reduce", "done"}

\* the results of the searches of the log that returned, in the order issued
RECURSIVE HitsOf(_)
HitsOf(log) ==
    IF log = <<>>
    THEN <<>>
    ELSE (IF Head(log).outcome.raised THEN <<>> ELSE Head(log).outcome.hits)
         \o HitsOf(Tail(log))

SearchesOf(key, vq) ==
    {i \in DOMAIN searchLog : searchLog[i].key = key /\ searchLog[i].query = vq}

LoadsOf(key) == {j \in DOMAIN loadLog : loadLog[j].key = key}

\* C18: a store that yields no handle (its location is missing, or opening it
\* fails) and a search that raises add nothing and raise nothing: the aggregated
\* results are exactly those of the searches that returned, every store of the
\* standard is still loaded, every variant is still searched in every store with
\* a handle, the ranked context is taken from the aggregated results, and the
\* request ends in an exception only when the Reduce call raised.
C18_RetrievalFailuresAreAbsorbed ==
    Retrieves =>
        /\ pc \in {"load", "search"} => result = Pending
        /\ aggregated = HitsOf(searchLog)
        /\ \A j \in DOMAIN loadLog :
              ~loadLog[j].handle =>
                 \A i \in DOMAIN searchLog : searchLog[i].key # loadLog[j].key
        /\ RetrievalEnded =>
              /\ LoadedKeys = ExpectedKeys(CanonicalKeyOf(selected_standard))
              /\ \A j \in DOMAIN loadLog :
                    loadLog[j].handle =>
                       \A v \in DOMAIN variants :
                          SearchesOf(loadLog[j].key, variants[v]) # {}
              /\ Len(results) = Min(Len(aggregated), 20)
              /\ Range(results) \subseteq Range(aggregated)
              /\ result.kind = "raised" =>
                    ReduceLog # <<>> /\ ReduceLog[Len(ReduceLog)].outcome.raised

\* the first store yields no handle and the first search of the second raises;
\* the later searches return and their results are the ranked context
C18_Witness ==
    /\ pc = "map"
    /\ Len(loadLog) = 2
    /\ ~loadLog[1].handle
    /\ loadLog[2].handle
    /\ Len(searchLog) = 3
    /\ searchLog[1].outcome.raised
    /\ ~searchLog[2].outcome.raised
    /\ searchLog[3].outcome.raised
    /\ Len(results) = MaxHits

\* C20: every search of the request asks for up to 20 results, in a store of the
\* standard, for a variant of the query; no (store, variant) pair is searched
\* twice, and when the retrieval has ended every store of the standard was
\* loaded once and each pair of a store with a handle and a variant was
\* searched exactly once, a store without a handle not at all.
C20_OneSearchPerStoreAndVariant ==
    Retrieves =>
        LET keys == ExpectedKeys(CanonicalKeyOf(selected_standard))
        IN  /\ \A i \in DOMAIN searchLog :
                  /\ searchLog[i].k = 20
                  /\ searchLog[i].key \in Range(keys)
                  /\ searchLog[i].query \in Range(variants)
            /\ \A key \in Range(keys) : \A v \in DOMAIN variants :
                  Cardinality(SearchesOf(key, variants[v])) <= 1
            /\ RetrievalEnded =>
                  /\ \A key \in Range(keys) :
                        /\ Cardinality(LoadsOf(key)) = 1
                        /\ \A v \in DOMAIN variants :
                              Cardinality(SearchesOf(key, variants[v])) =
                                 IF \E j \in LoadsOf(key) : loadLog[j].handle THEN 1 ELSE 0
                  /\ Len(searchLog) =
                        Cardinality({j \in DOMAIN loadLog : loadLog[j].handle}) * Len(variants)

\* two stores with a handle, three variants: six searches
C20_Witness ==
    /\ RetrievalEnded
    /\ Len(variants) = 3
    /\ Len(loadLog) = 2
    /\ loadLog[1].handle
    /\ loadLog[2].handle
    /\ Len(searchLog) = 6
    /\ searchLog[4].outcome.raised
    /\ aggregated # <<>>

----------------------------------------------------------------------------
(* _load_chroma_db on its own: loads one after the other, and loads by two threads *)

\* the most connections the model opens for one cache key
MaxOpens == 2

\* the variables of a request: no request runs while the stores are loaded here
requestVars == <<pc, query, selected_standard, original_query, standard_key,
                 chat_state, variants, spec_i, var_i, db, aggregated, results,
                 sources, batch_size, batch_i, summaries, result, search_keys, sk_i,
                 loadLog, searchLog, completionLog>>

\* the StoreSpecs loaded here: those of the first two standards of the registry
LoadedSpecs == Range(CHROMA_SPECS[1][2]) \cup Range(CHROMA_SPECS[2][2])

\* one call of _load_chroma_db(spec.path, spec.collection), from start to end
Load(spec) ==
    /\ \E outcome \in LoadOutcomes(_CHROMA_CACHE, KeyOf(spec)) :
         LET key == KeyOf(spec)
             r == _load_chroma_db(_CHROMA_CACHE, spec, outcome, opened[key] + 1)
         IN  /\ r.connected => opened[key] < MaxOpens
             /\ _CHROMA_CACHE' = r.cache
             /\ opened' = IF r.connected THEN [opened EXCEPT ![key] = @ + 1] ELSE opened
             /\ arg' = spec
             /\ ret' = Returned(r.db)
    /\ UNCHANGED <<requestVars, words, kws, threads, sideVars>>

LoadNext == \E spec \in LoadedSpecs : Load(spec)

LoadSpec == Init /\ [][LoadNext]_vars

\* C16 as stated: whatever loads the process has made, no cache key has had more
\* than one connection opened.
C16_Original == \A key \in AllKeys : opened[key] <= 1

\* a thread calls _load_chroma_db(spec.path, spec.collection)
ThreadCall(t, spec) ==
    /\ threads[t].pc = "idle"
    /\ threads' = [threads EXCEPT ![t] = [pc |-> "check", spec |-> spec, db |-> NoHandle]]
    /\ UNCHANGED <<requestVars, _CHROMA_CACHE, opened, arg, ret, words, kws, sideVars>>

\* lines 58-60: the cache is looked up
ThreadCheck(t) ==
    /\ threads[t].pc = "check"
    /\ LET key == KeyOf(threads[t].spec)
       IN  threads' =
              [threads EXCEPT ![t] =
                  IF key \in DictKeys(_CHROMA_CACHE)
                  THEN [@ EXCEPT !.pc = "returned", !.db = DictGet(_CHROMA_CACHE, key, NoHandle)]
                  ELSE [@ EXCEPT !.pc = "open"]]
    /\ UNCHANGED <<requestVars, _CHROMA_CACHE, opened, arg, ret, words, kws, sideVars>>

\* lines 62-76 and 81-83: the path is tested, the store is opened and counted
ThreadOpen(t) ==
    /\ threads[t].pc = "open"
    /\ LET spec == threads[t].spec
           key == KeyOf(spec)
       IN  \E outcome \in LoadOutcomes({}, key) :
              LET r == _load_chroma_db({}, spec, outcome, opened[key] + 1)
              IN  /\ r.connected => opened[key] < MaxOpens
                  /\ opened' = IF r.connected THEN [opened EXCEPT ![key] = @ + 1] ELSE opened
                  /\ threads' =
                        [threads EXCEPT ![t] =
                            IF r.db = NoHandle
                            THEN [@ EXCEPT !.pc = "returned"]
                            ELSE [@ EXCEPT !.pc = "store", !.db = r.db]]
    /\ UNCHANGED <<requestVars, _CHROMA_CACHE, arg, ret, words, kws, sideVars>>

\* lines 79-80: the handle is put into the cache and returned
ThreadStore(t) ==
    /\ threads[t].pc = "store"
    /\ _CHROMA_CACHE' = DictSet(_CHROMA_CACHE, KeyOf(threads[t].spec), threads[t].db)
    /\ threads' = [threads EXCEPT ![t].pc = "returned"]
    /\ UNCHANGED <<requestVars, opened, arg, ret, words, kws, sideVars>>

\* the caller has the handle
ThreadReturn(t) ==
    /\ threads[t].pc = "returned"
    /\ threads' = [threads EXCEPT ![t] = ThreadIdle]
    /\ UNCHANGED <<requestVars, _CHROMA_CACHE, opened, arg, ret, words, kws, sideVars>>

RaceNext ==
    \E t \in Threads :
       \/ \E spec \in Range(CHROMA_SPECS[1][2]) : ThreadCall(t, spec)
       \/ ThreadCheck(t)
       \/ ThreadOpen(t)
       \/ ThreadStore(t)
       \/ ThreadReturn(t)

RaceSpec == Init /\ [][RaceNext]_vars

\* a thread holds a handle of the key: one it opened, or one it found in the cache
HoldsHandle(t, key) ==
    /\ threads[t].pc \in {"store", "returned"}
    /\ threads[t].db # NoHandle
    /\ KeyOf(threads[t].spec) = key

\* C17 as stated: two threads that load the same key hold the same handle, the
\* one connection opened for that key.
C17_Original ==
    \A key \in AllKeys : \A t1, t2 \in Threads :
       (HoldsHandle(t1, key) /\ HoldsHandle(t2, key)) => threads[t1].db = threads[t2].db

----------------------------------------------------------------------------
(* Query expansion on its own *)

\* the most tokens of a query built from Vocabulary
MaxTokens == 4

\* a stop word, a short token, a plain keyword, and tokens that end in "s"
Vocabulary ==
    { <<"T","h","e">>,
      <<"c","o">>,
      <<"t","e","a","k">>,
      <<"P","r","o","j","e","c","t","s">>,
      <<"b","i","o","m","a","s","s">>,
      <<"s","s","s">> }

\* the queries of n tokens, a single space between two tokens
QueriesOf(n) == {join_spaces(ts) : ts \in [1..n -> Vocabulary]}

QueryAllometric == <<"W","h","a","t"," ","a","l","l","o","m","e","t","r","i","c"," ","e","q","u","a","t","i","o","n"," ","d","i","d"," ","t","h","e"," ","V","C","S"," ","p","r","o","j","e","c","t"," ","u","s","e"," ","f","o","r"," ","t","e","a","k"," ","b","i","o","m","a","s","s">>

NamedQueries ==
    { <<>>, QueryStopWords, QueryTeak, QueryAllometric,
      <<"t","e","a","k",","," ","t","e","a","k","?">>,
      <<" ","c","a","r","b","o","n"," "," ","c","r","e","d","i","t"," ">>,
      <<"I","s"," ","C","O","2"," ","i","n"," ","l","o","w","-","c","a","r","b","o","n"," ","c","e","m","e","n","t","?">> }

ExpandInit ==
    /\ PipeInit
    /\ CalleesIdle
    /\ ret = Pending
    /\ \/ \E n \in 0..MaxTokens : arg \in QueriesOf(n)
       \/ arg \in NamedQueries

\* expand_query_variants applied to arg
ApplyExpand ==
    /\ ret = Pending
    /\ words' = words_of(arg)
    /\ kws' = kws_of(arg)
    /\ ret' = Returned(expand_query_variants(arg))
    /\ UNCHANGED <<arg, threads, sideVars, pipeVars>>

ExpandNext == ApplyExpand

ExpandSpec == ExpandInit /\ [][ExpandNext]_vars

\* the position at which x stands first in lst
FirstIndex(lst, x) == CHOOSE i \in DOMAIN lst : lst[i] = x /\ \A j \in 1..(i - 1) : lst[j] # x

\* C12: the list expand_query_variants returns starts with the query itself, holds
\* no string twice, holds exactly the strings built from the query and its keywords,
\* and orders them by their first occurrence; the query is there even when no
\* keyword is left.
C12_OriginalFirstNoDuplicates ==
    ret.kind = "returned" =>
        LET out == ret.value
            built == variants_of(kws, arg)
        IN  /\ Len(out) >= 1
            /\ out[1] = arg
            /\ \A i, j \in DOMAIN out : i # j => out[i] # out[j]
            /\ Range(out) = Range(built)
            /\ \A i, j \in DOMAIN out :
                  i < j => FirstIndex(built, out[i]) < FirstIndex(built, out[j])
            /\ kws = <<>> => out = <<arg>>

\* a query that is its own keyword string: the repeated string is dropped
C12_Witness ==
    /\ ret.kind = "returned"
    /\ arg = <<"t","e","a","k"," ","t","e","a","k">>
    /\ kws = <<<<"t","e","a","k">>, <<"t","e","a","k">>>>
    /\ ret.value = <<arg>>

\* C13: when every token of the query is a stop word or shorter than 3 characters,
\* expand_query_variants returns the query and nothing else.
C13_OnlyStopWordsOrShortTokens ==
    (ret.kind = "returned" /\ \A i \in DOMAIN words : words[i] \in stop \/ Len(words[i]) < 3) =>
        ret.value = <<arg>>

C13_Witness ==
    /\ ret.kind = "returned"
    /\ arg = <<"T","h","e"," ","c","o"," ","T","h","e">>
    /\ Len(words) = 3
    /\ ret.value = <<arg>>

\* C14 as stated: with more than 3 keywords the result is exactly the query, all
\* keywords joined by spaces, and the first three keywords joined by spaces.
C14_Original ==
    (ret.kind = "returned" /\ Len(kws) > 3) =>
        ret.value = <<arg, join_spaces(kws), join_spaces(SubSeq(kws, 1, 3))>>

\* C14, amended: with more than 3 keywords the result is the query, then all
\* keywords joined by spaces unless that string is the query itself, then the
\* first three keywords joined by spaces: three variants, or two when the query
\* is its own keyword string.
C14_ThreeVariantsUnlessRepeated ==
    (ret.kind = "returned" /\ Len(kws) > 3) =>
        ret.value = IF join_spaces(kws) = arg
                    THEN <<arg, join_spaces(SubSeq(kws, 1, 3))>>
                    ELSE <<arg, join_spaces(kws), join_spaces(SubSeq(kws, 1, 3))>>

C14_Witness ==
    /\ ret.kind = "returned"
    /\ arg = QueryAllometric
    /\ Len(kws) = 8
    /\ Len(ret.value) = 3
    /\ ret.value[3] = <<"a","l","l","o","m","e","t","r","i","c"," ","e","q","u","a","t","i","o","n"," ","d","i","d">>

\* the tokens line 101 keeps
IsKeywordToken(w) == Len(w) >= 3 /\ w \notin stop

\* the token without its last character when that is "s"
strip_one_s(w) == IF w # <<>> /\ w[Len(w)] = "s" THEN SubSeq(w, 1, Len(w) - 1) ELSE w

\* C19 as stated: each keyword is its token with exactly one trailing "s" removed
\* when the token ends in "s", and the token itself otherwise.
C19_Original ==
    ret.kind = "returned" =>
        LET kept == SelectSeq(words, IsKeywordToken)
        IN  kws = [i \in DOMAIN kept |-> strip_one_s(kept[i])]

----------------------------------------------------------------------------
(* The resolver on two labels *)

PairAlphabet == {"g", "S", "-", " "}

PairLabels(n) == [1..n -> PairAlphabet]

NamedLabels ==
    { <<"g","o","l","d"," ","s","t","a","n","d","a","r","d">>,
      <<"G","o","l","d","-","S","t","a","n","d","a","r","d">>,
      <<"g","o","l","d","_","s","t","a","n","d","a","r","d">>,
      <<"g","o","l","d","s","t","a","n","d","a","r","d">>,
      <<"G","O","L","D"," ","S","T","A","N","D","A","R","D">>,
      <<"p","l","a","n"," ","v","i","v","o">>,
      <<"P","l","a","n","-","V","i","v","o">>,
      <<"P","l","a","n","V","i","v","o">>,
      <<"v"," ","c","s">>,
      <<"V","C","S">>,
      <<"V","e","r","r","a">>,
      <<"v","c","s"," ">>,
      <<"x","y","z">> }

\* arg holds two labels: both short ones over PairAlphabet, or both named ones
ResolvePairInit ==
    /\ PipeInit
    /\ CalleesIdle
    /\ ret = Pending
    /\ \/ \E n \in 0..MaxLabelLen : \E m \in 0..MaxLabelLen :
             \E a \in PairLabels(n) : \E b \in PairLabels(m) : arg = [a |-> a, b |-> b]
       \/ \E a \in NamedLabels : \E b \in NamedLabels : arg = [a |-> a, b |-> b]

\* _normalize_standard_key applied to each of the two labels
ApplyResolvePair ==
    /\ ret = Pending
    /\ ret' = Returned([a |-> _normalize_standard_key(arg.a),
                        b |-> _normalize_standard_key(arg.b)])
    /\ UNCHANGED <<arg, words, kws, threads, sideVars, pipeVars>>

ResolvePairNext == ApplyResolvePair

ResolvePairSpec == ResolvePairInit /\ [][ResolvePairNext]_vars

IsNoSpaceOrHyphen(c) == c # " " /\ c # "-"

\* the label lowercased, its spaces and hyphens removed
Squeezed(label) == SelectSeq(Lower(label), IsNoSpaceOrHyphen)

\* the labels are equal up to letter case, a space, hyphen or underscore of one
\* standing where the other has a space, hyphen or underscore
SameUpToCaseAndSeparator(a, b) ==
    /\ Len(a) = Len(b)
    /\ \A i \in DOMAIN a :
          \/ LowerChar(a[i]) = LowerChar(b[i])
          \/ a[i] \in Separators /\ b[i] \in Separators

\* C11 as stated: two labels that are equal after lowercasing and removing spaces
\* and hyphens resolve to the same outcome.
C11_Original ==
    (ret.kind = "returned" /\ Squeezed(arg.a) = Squeezed(arg.b)) =>
        ret.value.a = ret.value.b

\* C11, amended: two labels that are equal after lowercasing and replacing each
\* space and each hyphen by an underscore resolve to the same outcome (the same
\* canonical key, or both None).
C11_SeparatorsAreInterchangeable ==
    (ret.kind = "returned" /\ SameUpToCaseAndSeparator(arg.a, arg.b)) =>
        ret.value.a = ret.value.b

C11_Witness ==
    /\ ret.kind = "returned"
    /\ arg.a = <<"G","o","l","d","-","S","t","a","n","d","a","r","d">>
    /\ arg.b = <<"g","o","l","d"," ","s","t","a","n","d","a","r","d">>
    /\ ret.value.a = <<"g","s">>
    /\ ret.value.b = <<"g","s">>

----------------------------------------------------------------------------
(* The cache over the lifetime of the process *)

\* C21 as stated: once the cache maps a (location, collection) key to a handle,
\* every later state maps the key to that same handle: no step removes or
\* replaces an entry of the cache.
C21_Original == [][\A e \in _CHROMA_CACHE : e \in _CHROMA_CACHE']_vars

\* C27: a load that fails (the path is missing, or opening or counting the store
\* raises) returns no handle and leaves the cache as it was: the cache never
\* holds a key without a handle, the key of the failed load is not in the
\* cache, and so the next load of that key tries the store again.
C27_FailedLoadsAreNotCached ==
    /\ [](\A e \in _CHROMA_CACHE : e[2] # NoHandle)
    /\ []((ret.kind = "returned" /\ ret.value = NoHandle) =>
             (KeyOf(arg) \notin DictKeys(_CHROMA_CACHE)
              /\ LoadOutcomes(_CHROMA_CACHE, KeyOf(arg)) # {"cached"}))
    /\ [][(ret'.kind = "returned" /\ ret'.value = NoHandle) =>
             (_CHROMA_CACHE' = _CHROMA_CACHE)]_vars

\* a store whose count failed twice, each time on a new connection, while
\* another store is cached
C27_Witness ==
    /\ ret.kind = "returned"
    /\ ret.value = NoHandle
    /\ opened[KeyOf(arg)] = 2
    /\ _CHROMA_CACHE # {}
    /\ KeyOf(arg) \notin DictKeys(_CHROMA_CACHE)

----------------------------------------------------------------------------
(* run_app.py: the session of the front end, one action per run of the script *)

\* the most entries of chat_history the model lets a session collect
MaxHistory == 4

\* what the user may have typed into the input box
TypedQueries == {<<>>, QueryStopWords, QueryTeak}

\* lines 178-184: the buttons of the standard chooser, <<label, val>>
buttons ==
    << << <<"G","S">>, <<"g","s">> >>,
       << <<"V","C","S">>, <<"v","c","s">> >>,
       << <<"I","C","R">>, <<"i","c","r">> >>,
       << <<"P","L","A","N","_","V","I","V","O">>, <<"p","l","a","n","_","v","i","v","o">> >>,
       << <<"O","T","H","E","R">>, <<"o","t","h","e","r">> >> >>

\* a result of get_answer with an answer of the completion model
AnsweredResult ==
    [answer |-> <<"final", " ", "answer">>,
     sources |-> sources_of(ContextOf(1)),
     highlights |-> highlights_of(ContextOf(1))]

\* how a call get_answer(query=q, selected_standard=s) ends for its caller:
\* the results of lines 37-51, an answer, or the exception of the Reduce call
get_answer(q, s) ==
    IF no_standard(s)
    THEN {Returned(ClarificationResult)}
    ELSE IF ~Truthy(_normalize_standard_key(s))
    THEN {Returned(InvalidStandardResult)}
    ELSE IF ~Truthy(q)
    THEN {Returned(NoInformationResult)}
    ELSE {Returned(NoInformationResult), Returned(AnsweredResult)}
         \cup {Raised(e) : e \in Errors}

\* res.get("clarification")
asks_clarification(res) == "clarification" \in DOMAIN res /\ Truthy(res.clarification)

\* f"{pending_query} ({label})"
question_with_label(q, label) == q \o <<" ", "(">> \o label \o <<")">>

\* lines 141-144: a run of the script after the text of the input box changed
Type(text) ==
    /\ text # session_state.main_query
    /\ session_state' = [session_state EXCEPT !.main_query = text]
    /\ UNCHANGED <<pipeVars, arg, ret, words, kws, threads, attempts, global_embeddings>>

\* lines 151-154: New Chat
NewChat ==
    /\ session_state' = defaults
    /\ UNCHANGED <<pipeVars, arg, ret, words, kws, threads, attempts, global_embeddings>>

\* as Send, without the test of main_query
Send_without_query_test ==
    /\ Len(session_state.chat_history) < MaxHistory
    /\ IF ~Truthy(session_state.selected_standard)
       THEN /\ session_state' = [session_state EXCEPT !.ask_standard = TRUE,
                                                       !.pending_query = session_state.main_query]
            /\ UNCHANGED <<arg, ret>>
       ELSE \E r \in get_answer(session_state.main_query, session_state.selected_standard) :
               /\ arg' = [query |-> session_state.main_query,
                          selected_standard |-> session_state.selected_standard]
               /\ ret' = r
               /\ session_state' =
                     IF r.kind = "raised"
                     THEN session_state
                     ELSE IF asks_clarification(r.value)
                     THEN [session_state EXCEPT !.ask_standard = TRUE,
                                                !.pending_query = session_state.main_query]
                     ELSE [session_state EXCEPT
                              !.chat_history =
                                  @ \o << <<"question", session_state.main_query>>,
                                          <<"answer", r.value>> >>,
                              !.selected_standard =
                                  IF "standard" \in DOMAIN r.value
                                  THEN r.value.standard ELSE @]
    /\ UNCHANGED <<pipeVars, words, kws, threads, attempts, global_embeddings>>

\* lines 157-171: Send, pressed with a text in the input box
Send ==
    /\ Truthy(session_state.main_query)
    /\ Len(session_state.chat_history) < MaxHistory
    /\ IF ~Truthy(session_state.selected_standard)
       THEN /\ session_state' = [session_state EXCEPT !.ask_standard = TRUE,
                                                       !.pending_query = session_state.main_query]
            /\ UNCHANGED <<arg, ret>>
       ELSE \E r \in get_answer(session_state.main_query, session_state.selected_standard) :
               /\ arg' = [query |-> session_state.main_query,
                          selected_standard |-> session_state.selected_standard]
               /\ ret' = r
               /\ session_state' =
                     IF r.kind = "raised"
                     THEN session_state
                     ELSE IF asks_clarification(r.value)
                     THEN [session_state EXCEPT !.ask_standard = TRUE,
                                                !.pending_query = session_state.main_query]
                     ELSE [session_state EXCEPT
                              !.chat_history =
                                  @ \o << <<"question", session_state.main_query>>,
                                          <<"answer", r.value>> >>,
                              !.selected_standard =
                                  IF "standard" \in DOMAIN r.value
                                  THEN r.value.standard ELSE @]
    /\ UNCHANGED <<pipeVars, words, kws, threads, attempts, global_embeddings>>

\* lines 175-194: a button of the standard chooser; when get_answer raises, the
\* run ends with lines 187-188 done and lines 191-193 not
Choose(label, val) ==
    /\ session_state.ask_standard
    /\ Len(session_state.chat_history) < MaxHistory
    /\ \E r \in get_answer(session_state.pending_query, val) :
          /\ arg' = [query |-> session_state.pending_query, selected_standard |-> val]
          /\ ret' = r
          /\ session_state' =
                IF r.kind = "raised"
                THEN [session_state EXCEPT !.selected_standard = val, !.ask_standard = FALSE]
                ELSE [session_state EXCEPT
                         !.selected_standard = val,
                         !.ask_standard = FALSE,
                         !.chat_history =
                             @ \o << <<"question",
                                       question_with_label(session_state.pending_query, label)>>,
                                     <<"answer", r.value>> >>,
                         !.pending_query = None]
    /\ UNCHANGED <<pipeVars, words, kws, threads, attempts, global_embeddings>>

FrontNext ==
    \/ \E text \in TypedQueries : Type(text)
    \/ NewChat
    \/ Send
    \/ \E i \in DOMAIN buttons : Choose(buttons[i][1], buttons[i][2])

FrontSpec == Init /\ [][FrontNext]_vars

\* the chat history is a sequence of questions, each followed by its answer
IsExchanges(history) ==
    /\ Len(history) % 2 = 0
    /\ \A i \in DOMAIN history :
          history[i][1] = IF i % 2 = 1 THEN "question" ELSE "answer"

\* C29: in every state of a session, ask_standard is true only while
\* pending_query holds a non-empty query, no call of get_answer by the front end
\* was made with an empty query, and chat_history only grows by a question
\* entry followed by the answer entry of the call made for it.
C29_SessionStateIsConsistent ==
    /\ [](session_state.ask_standard => Truthy(session_state.pending_query))
    /\ [](ret.kind # "pending" => Truthy(arg.query))
    /\ [](IsExchanges(session_state.chat_history))
    /\ [][LET old == session_state.chat_history
              new == session_state'.chat_history
          IN  (new # old /\ new # <<>>) =>
                 /\ Len(new) = Len(old) + 2
                 /\ SubSeq(new, 1, Len(old)) = old
                 /\ new[Len(new) - 1][1] = "question"
                 /\ new[Len(new)] = <<"answer", ret'.value>>]_vars

\* the chooser has answered a pending query, and a second question was sent
\* with the standard it set
C29_Witness ==
    /\ Len(session_state.chat_history) = 4
    /\ session_state.chat_history[1] =
          <<"question", question_with_label(QueryStopWords, <<"G","S">>)>>
    /\ session_state.chat_history[3] = <<"question", QueryStopWords>>
    /\ session_state.selected_standard = <<"g","s">>
    /\ ~session_state.ask_standard
    /\ session_state.pending_query = None

----------------------------------------------------------------------------
(* update_pipeline_vcs.py (and, line for line, update_pipeline_gs.py and          *)
(* update_pipeline_icr.py): with_retries and the embedding loop that calls it     *)

\* MAX_RETRIES = 5
MAX_RETRIES == 5

\* the most documents the model lets the pipeline count as stored
MaxEmbeddings == 4

\* sub in s
Contains(s, sub) ==
    \E i \in 0..(Len(s) - Len(sub)) : SubSeq(s, i + 1, i + Len(sub)) = sub

\* as retryable, looking for "rate limit" without lowering the message
retryable_case_sensitive(es) ==
    \/ Contains(es, <<"4","2","9">>)
    \/ Contains(es, <<"r","a","t","e"," ","l","i","m","i","t">>)
    \/ Contains(es, <<"C","o","n","n","e","c","t","i","o","n"," ","e","r","r","o","r">>)

\* line 59: "429" in str(e) or "rate limit" in str(e).lower() or "Connection error" in str(e)
retryable(es) ==
    \/ Contains(es, <<"4","2","9">>)
    \/ Contains(Lower(es), <<"r","a","t","e"," ","l","i","m","i","t">>)
    \/ Contains(es, <<"C","o","n","n","e","c","t","i","o","n"," ","e","r","r","o","r">>)

\* as with_retries, sleeping and trying again whatever the error
RECURSIVE with_retries_retrying_every_error(_, _, _)
with_retries_retrying_every_error(func, attempt, max_retries) ==
    IF attempt >= max_retries
    THEN [result |-> Returned(None), calls |-> attempt]
    ELSE LET o == func[attempt + 1]
         IN  IF ~o.raised
             THEN [result |-> Returned(o.value), calls |-> attempt + 1]
             ELSE with_retries_retrying_every_error(func, attempt + 1, max_retries)

\* lines 54-66, from the pass `attempt` of the loop on; func is given by the
\* outcomes of its successive calls. The result, and the calls made of func.
RECURSIVE with_retries(_, _, _)
with_retries(func, attempt, max_retries) ==
    IF attempt >= max_retries
    THEN [result |-> Returned(None), calls |-> attempt]
    ELSE LET o == func[attempt + 1]
         IN  IF ~o.raised
             THEN [result |-> Returned(o.value), calls |-> attempt + 1]
             ELSE IF retryable(o.error)
                  THEN with_retries(func, attempt + 1, max_retries)
                  ELSE [result |-> Raised(o.error), calls |-> attempt + 1]

\* the messages of the errors db.add_documents fails with
Msg429 == <<"E","r","r","o","r"," ","c","o","d","e",":"," ","4","2","9">>

MsgRateLimit == <<"R","a","t","e"," ","L","i","m","i","t"," ","r","e","a","c","h","e","d">>

MsgConnection == <<"C","o","n","n","e","c","t","i","o","n"," ","e","r","r","o","r",".">>

MsgBadRequest == <<"E","r","r","o","r"," ","c","o","d","e",":"," ","4","0","0">>

RetryableMessages == <<Msg429, MsgRateLimit, MsgConnection>>

\* db.add_documents returns the ids of the documents it stored
Added == [raised |-> FALSE, value |-> <<"ids">>, error |-> <<>>]

Failing(es) == [raised |-> TRUE, value |-> None, error |-> es]

\* the behaviours of db.add_documents over MAX_RETRIES + 1 calls: k failures
\* with rate-limit and connection messages (starting with the m-th of them),
\* then an error of another kind or none, then success
AddBehaviours ==
    { [i \in 1..(MAX_RETRIES + 1) |->
          IF i <= k
          THEN Failing(RetryableMessages[((i + m) % 3) + 1])
          ELSE IF i = k + 1 /\ bad THEN Failing(MsgBadRequest) ELSE Added]
      : k \in 0..MAX_RETRIES, m \in 0..2, bad \in BOOLEAN }

\* lines 247-262 of create_chroma_index: one pass of the embedding loop for a
\* batch with n valid documents; an exception of with_retries ends the pipeline
AddBatch(n, func) ==
    /\ ret.kind # "raised"
    /\ global_embeddings + n <= MaxEmbeddings
    /\ LET r == with_retries(func, 0, MAX_RETRIES)
       IN  /\ arg' = [valid_docs |-> n, func |-> func]
           /\ ret' = r.result
           /\ attempts' = SubSeq(func, 1, r.calls)
           /\ global_embeddings' =
                 IF r.result.kind = "returned" /\ r.result.value # None
                 THEN global_embeddings + n
                 ELSE global_embeddings
    /\ UNCHANGED <<pipeVars, words, kws, threads, session_state>>

IngestNext == \E n \in 1..2 : \E func \in AddBehaviours : AddBatch(n, func)

IngestSpec == Init /\ [][IngestNext]_vars

IsRateLimitOrConnection(es) == es \in {Msg429, MsgRateLimit, MsgConnection}

\* the calls with_retries made, each with the outcome it had
RetriesAsClaimed ==
    ret.kind # "pending" =>
        LET n == Len(attempts)
        IN  /\ n <= MAX_RETRIES
            /\ attempts = SubSeq(arg.func, 1, n)
            /\ \A i \in 1..(n - 1) :
                  attempts[i].raised /\ IsRateLimitOrConnection(attempts[i].error)
            /\ IF n > 0 /\ ~attempts[n].raised
               THEN ret = [kind |-> "returned", value |-> attempts[n].value]
               ELSE IF n > 0 /\ ~IsRateLimitOrConnection(attempts[n].error)
               THEN ret = [kind |-> "raised", error |-> attempts[n].error]
               ELSE n = MAX_RETRIES /\ ret = [kind |-> "returned", value |-> None]

\* C30: with_retries calls the operation at most max_retries times, one call
\* after the other: every call but the last failed with a rate-limit or
\* connection error; it returns what the first successful call returned,
\* raises the first error of another kind without a further call, and returns
\* None after max_retries such failures. The embedding loop counts the documents
\* of a batch as stored only when with_retries did not return None.
C30_RetriesAreBounded ==
    /\ []RetriesAsClaimed
    /\ [][global_embeddings' =
             global_embeddings +
                (IF ret'.kind = "returned" /\ ret'.value # None
                 THEN arg'.valid_docs ELSE 0)]_vars

\* a batch of two documents given up after five failures, after another batch
\* was stored
C30_Witness ==
    /\ ret = [kind |-> "returned", value |-> None]
    /\ Len(attempts) = MAX_RETRIES
    /\ arg.valid_docs = 2
    /\ global_embeddings = 1

====
